---- MODULE Spec2Model ----
(***************************************************************************)
(* Verification model of the linkwavez backend core: the fan-tier ledger   *)
(* (routes/fans.js), the reaction toggle (routes/reactions.js) and the     *)
(* feed scoring helpers (routes/feed.js).                                  *)
(*                                                                         *)
(* Request handlers are modelled one store statement per step: every       *)
(* `await` is a point where another handler may run.  The store itself     *)
(* executes each SQL statement / client call atomically.  The store handle *)
(* is taken to be connected; a bounded number of statements may fail.      *)
(*                                                                         *)
(* Encodings: SQL NULL is 0 for ids and timestamps (real ids and stamps    *)
(* start at 1); CURRENT_TIMESTAMP is a logical clock that advances each    *)
(* time it is read.                                                        *)
(***************************************************************************)
EXTENDS Integers, Sequences, FiniteSets, TLC

VARIABLES
    \* ---- fan ledger (routes/fans.js) ----
    fan_badges,         \* reference table: sequence of [id, badge_name, min_interactions]
    user_fan_status,    \* [Pairs -> row], row.present = FALSE when no row
    fan_interactions,   \* [Pairs -> number of logged interaction rows]
    clock,              \* last value returned by CURRENT_TIMESTAMP
    fanProc,            \* [Procs -> handler invocation state]
    fanResp,            \* the HTTP response sent last, by any invocation
    faults,             \* number of store statements that have failed so far
    calls,              \* number of handler invocations started
    liOk,               \* history: [Pairs -> LogInteraction calls answered 'success']
    liAborted,          \* history: [Pairs -> LogInteraction calls answered 500]
    liPending,          \* history: [Pairs -> upserts whose badge recompute has not run]
    \* ---- reactions (routes/reactions.js) ----
    reactions,          \* table: set of rows [id, user_id, clip_id, reaction_type]
    nextReactionId,     \* next generated row id
    users,              \* table: [Users -> [wisdom_score, aura_score]]
    behavioral_patterns,\* table: [Users -> [reaction type -> tracked count]]
    rProc,              \* [Procs -> AddReaction invocation state]
    rResp,              \* the HTTP response sent last
    rCalls,             \* number of AddReaction invocations started
    rFaults,            \* number of store calls that have failed so far
    rHist,              \* history: [ReactionKeys -> the last two answered calls]
    rOverlap,           \* history: [ReactionKeys -> two calls for the key ran at once]
    \* ---- feed scoring (routes/feed.js) ----
    post,               \* the candidate post handed to calculateContentScore
    userMood,           \* mood handed to calculateContentScore
    hour,               \* new Date().getHours() at request time
    timePreference,     \* result of getTimeBasedPreference, "" before it ran
    userPassions,       \* sequence of the user's active passions (strings)
    feed_score,         \* 10 x the value returned by calculateContentScore
    sPc,                \* "time" -> "score" -> "done"
    \* ---- mood detection (routes/feed.js) ----
    reactionHistory,    \* the user's reaction types, newest first
    recentReactions,    \* result of the lookback query: [ok, rows]
    detectedMood,       \* value returned by detectUserMood, "" before it ran
    mPc,                \* "query" -> "classify" -> "done"
    \* ---- feed pagination (routes/feed.js) ----
    query,              \* req.query: [limit, offset], each a JS value
    scoredPosts,        \* the scored candidates: sequence of [id, feed_score]
    paginatedPosts,     \* result of the slice
    feedResp,           \* body of the feed response: [sent, feed, count, total_analyzed]
    fPc,                \* "sort" -> "paginate" -> "respond" -> "done"
    \* ---- comments and priority (routes/comments.js, fanSubscriptions.js) ----
    badge_multiplier,   \* fan_badges.priority_multiplier: [badge id -> number or NULL]
    subscriptions,      \* table: [user -> plan_type of the active row, "none" if no row]
    comments,           \* table: sequence of [id, user_id, clip_id, parent_comment_id]
    comment_priority_scores, \* table: [comment id -> row], row.present = FALSE when no row
    cProc,              \* the comment-side handler invocation in progress
    cResp,              \* the HTTP response sent last by a comment-side handler
    cCalls,             \* number of comment-side invocations started
    cFaults,            \* number of store calls of these handlers that have failed
    \* ---- presence registry (socket/chatSocket.js) ----
    activeUsers,        \* Map userId -> socketId
    userSockets,        \* Map socketId -> userId
    sockets,            \* [socket id -> "new" | "connected" | "closed"]
    sockEvents,         \* number of user:connect events handled
    \* ---- celebrity chat rooms (routes/chat.js) ----
    conversations,      \* table: set of [id, celebrity_id]
    celebrity_fan_groups, \* table: set of [conversation_id, min_tier_required]
    celebrity_fans,     \* table: set of [fan_id, celebrity_id, tier]
    conversation_participants, \* table: set of [conversation_id, user_id, role]
    chProc,             \* the chat handler invocation in progress
    chResp,             \* the HTTP response sent last by a chat handler
    chCalls,            \* number of chat handler invocations started
    chFaults,           \* number of store calls of the chat handlers that have failed
    \* ---- feed candidate pool (GetPersonalizedFeed, unnamed/part_000) ----
    follows,            \* table: set of following_id of the requesting user's rows
    gfProc,             \* locals of the GetPersonalizedFeed invocation
    gfFaults            \* number of store lookups of the invocation that have failed

fanVars == <<fan_badges, user_fan_status, fan_interactions, clock, fanProc,
             fanResp, faults, calls, liOk, liAborted, liPending>>

reactVars == <<reactions, nextReactionId, users, behavioral_patterns, rProc,
               rResp, rCalls, rFaults, rHist, rOverlap>>

scoreVars == <<post, userMood, hour, timePreference, userPassions, feed_score, sPc>>

moodVars == <<reactionHistory, recentReactions, detectedMood, mPc>>

pageVars == <<query, scoredPosts, paginatedPosts, feedResp, fPc>>

commentVars == <<badge_multiplier, subscriptions, comments, comment_priority_scores,
                 cProc, cResp, cCalls, cFaults>>

sockVars == <<activeUsers, userSockets, sockets, sockEvents>>

chatVars == <<conversations, celebrity_fan_groups, celebrity_fans,
              conversation_participants, chProc, chResp, chCalls, chFaults>>

poolVars == <<follows, gfProc, gfFaults>>

vars == <<fanVars, reactVars, scoreVars, moodVars, pageVars, commentVars,
          sockVars, chatVars, poolVars>>

\* what each subsystem's handlers never touch
restFan == <<reactVars, scoreVars, moodVars, pageVars, commentVars, sockVars, chatVars, poolVars>>
restReact == <<fanVars, scoreVars, moodVars, pageVars, commentVars, sockVars, chatVars, poolVars>>
restScore == <<fanVars, reactVars, moodVars, pageVars, commentVars, sockVars, chatVars, poolVars>>
restMood == <<fanVars, reactVars, scoreVars, pageVars, commentVars, sockVars, chatVars, poolVars>>
restPage == <<fanVars, reactVars, scoreVars, moodVars, commentVars, sockVars, chatVars, poolVars>>
restSock == <<fanVars, reactVars, scoreVars, moodVars, pageVars, commentVars, chatVars, poolVars>>
restChat == <<fanVars, reactVars, scoreVars, moodVars, pageVars, commentVars, sockVars, poolVars>>
restPool == <<fanVars, reactVars, moodVars, commentVars, sockVars, chatVars>>

\* ---------------------------------------------------------------------
\* Bounds
\* ---------------------------------------------------------------------
MaxCalls == 5
MaxThreshold == 5
MaxFaults == 1

Procs == 1..2
FanUsers == {"f1"}
Celebrities == {"c1"}
Pairs == FanUsers \X Celebrities
InteractionTypes == {"comment", "reaction", "share"}

NULL == 0

\* ---------------------------------------------------------------------
\* Reference data: fan_badges
\* ---------------------------------------------------------------------
BadgeNames == <<"New Fan", "Active Fan", "Loyal Fan", "Super Fan", "Die-Hard Fan">>

RECURSIVE SortedSeq(_)
SortedSeq(S) ==
    IF S = {} THEN <<>>
    ELSE LET m == CHOOSE x \in S : \A y \in S : x <= y
         IN  <<m>> \o SortedSeq(S \ {m})

\* a badge table whose thresholds are 0 for 'New Fan' and the elements of S,
\* ascending, for the other four badges
BadgeTable(S) ==
    LET mins == <<0>> \o SortedSeq(S)
    IN  [i \in 1..Len(BadgeNames) |->
            [id |-> i, badge_name |-> BadgeNames[i], min_interactions |-> mins[i]]]

BadgeTables ==
    { BadgeTable(S) : S \in { T \in SUBSET (1..MaxThreshold) :
                                Cardinality(T) = Len(BadgeNames) - 1 } }

BadgeRows(table) == { table[i] : i \in DOMAIN table }

\* SELECT id FROM fan_badges WHERE badge_name = name   (0 rows -> {})
BadgeIdsNamed(table, name) ==
    { b.id : b \in { r \in BadgeRows(table) : r.badge_name = name } }

\* mutant: strict comparison in the threshold filter
BadgeForStrict(table, total) ==
    LET ok == { b \in BadgeRows(table) : b.min_interactions < total }
    IN  IF ok = {} THEN NULL
        ELSE (CHOOSE b \in ok :
                \A c \in ok : c.min_interactions <= b.min_interactions).id

\* SELECT id FROM fan_badges WHERE min_interactions <= total
\*   ORDER BY min_interactions DESC LIMIT 1        (no row -> NULL)
BadgeFor(table, total) ==
    LET ok == { b \in BadgeRows(table) : b.min_interactions <= total }
    IN  IF ok = {} THEN NULL
        ELSE (CHOOSE b \in ok :
                \A c \in ok : c.min_interactions <= b.min_interactions).id

\* ---------------------------------------------------------------------
\* user_fan_status rows
\* ---------------------------------------------------------------------
NoRow ==
    [present |-> FALSE, total_interactions |-> 0, comment_count |-> 0,
     reaction_count |-> 0, current_badge_id |-> NULL, badge_earned_at |-> NULL,
     last_interaction_at |-> NULL]

\* mutant: the badge id is not copied into the new row
NewFanRowNoBadge(badgeId) ==
    [present |-> TRUE, total_interactions |-> 0, comment_count |-> 0,
     reaction_count |-> 0, current_badge_id |-> NULL, badge_earned_at |-> NULL,
     last_interaction_at |-> NULL]

\* INSERT INTO user_fan_status (fan_user_id, celebrity_user_id, current_badge_id)
\*   SELECT $1, $2, id FROM fan_badges WHERE badge_name = 'New Fan'
\* the remaining columns take their defaults
NewFanRow(badgeId) ==
    [present |-> TRUE, total_interactions |-> 0, comment_count |-> 0,
     reaction_count |-> 0, current_badge_id |-> badgeId, badge_earned_at |-> NULL,
     last_interaction_at |-> NULL]

\* mutant: the conflict branch subtracts instead of adding
UpsertRowDecrement(row, type, now) ==
    IF ~row.present
    THEN [present |-> TRUE, total_interactions |-> 1,
          comment_count |-> IF type = "comment" THEN 1 ELSE 0,
          reaction_count |-> IF type = "reaction" THEN 1 ELSE 0,
          current_badge_id |-> NULL, badge_earned_at |-> NULL,
          last_interaction_at |-> NULL]
    ELSE [row EXCEPT
            !.total_interactions = @ - 1,
            !.comment_count = @ + (IF type = "comment" THEN 1 ELSE 0),
            !.reaction_count = @ + (IF type = "reaction" THEN 1 ELSE 0),
            !.last_interaction_at = now]

\* mutant: the inserted row starts the counter at 0
UpsertRowZero(row, type, now) ==
    IF ~row.present
    THEN [present |-> TRUE, total_interactions |-> 0,
          comment_count |-> IF type = "comment" THEN 1 ELSE 0,
          reaction_count |-> IF type = "reaction" THEN 1 ELSE 0,
          current_badge_id |-> NULL, badge_earned_at |-> NULL,
          last_interaction_at |-> NULL]
    ELSE [row EXCEPT
            !.total_interactions = @ + 1,
            !.comment_count = @ + (IF type = "comment" THEN 1 ELSE 0),
            !.reaction_count = @ + (IF type = "reaction" THEN 1 ELSE 0),
            !.last_interaction_at = now]

\* mutant: the comment counter ignores the interaction type
UpsertRowAnyType(row, type, now) ==
    IF ~row.present
    THEN [present |-> TRUE, total_interactions |-> 1,
          comment_count |-> 1,
          reaction_count |-> IF type = "reaction" THEN 1 ELSE 0,
          current_badge_id |-> NULL, badge_earned_at |-> NULL,
          last_interaction_at |-> NULL]
    ELSE [row EXCEPT
            !.total_interactions = @ + 1,
            !.comment_count = @ + 1,
            !.reaction_count = @ + (IF type = "reaction" THEN 1 ELSE 0),
            !.last_interaction_at = now]

\* INSERT ... VALUES ($1, $2, 1, CASE.., CASE..) ON CONFLICT (fan, celebrity)
\*   DO UPDATE SET total = total + 1, ..., last_interaction_at = CURRENT_TIMESTAMP
\* the inserted row leaves current_badge_id at its default
UpsertRow(row, type, now) ==
    IF ~row.present
    THEN [present |-> TRUE, total_interactions |-> 1,
          comment_count |-> IF type = "comment" THEN 1 ELSE 0,
          reaction_count |-> IF type = "reaction" THEN 1 ELSE 0,
          current_badge_id |-> NULL, badge_earned_at |-> NULL,
          last_interaction_at |-> NULL]
    ELSE [row EXCEPT
            !.total_interactions = @ + 1,
            !.comment_count = @ + (IF type = "comment" THEN 1 ELSE 0),
            !.reaction_count = @ + (IF type = "reaction" THEN 1 ELSE 0),
            !.last_interaction_at = now]

\* UPDATE user_fan_status SET current_badge_id = (subquery),
\*   badge_earned_at = CASE WHEN current_badge_id != (subquery)
\*                     THEN CURRENT_TIMESTAMP ELSE badge_earned_at END
\* `!=` is SQL's: a NULL operand makes the WHEN condition not true
RecomputeBadge(table, row, now) ==
    LET new == BadgeFor(table, row.total_interactions)
        old == row.current_badge_id
    IN  [row EXCEPT
            !.current_badge_id = new,
            !.badge_earned_at =
                IF old # NULL /\ new # NULL /\ old # new THEN now ELSE @]

\* ---------------------------------------------------------------------
\* Handler invocations
\* ---------------------------------------------------------------------
IdleProc == [pc |-> "idle", pair |-> <<"f1", "c1">>, type |-> "comment"]
NoResp == [status |-> "none", handler |-> "none", data |-> NoRow]

\* handler instances are interchangeable: a request takes the first free one
FirstFreeFan(p) == \A q \in Procs : q < p => fanProc[q].pc # "idle"

FanBusy(pair) == { p \in Procs : fanProc[p].pc # "idle" /\ fanProc[p].pair = pair }

LiBusy(pair) ==
    { p \in Procs : fanProc[p].pc \in {"li_log", "li_upsert", "li_badge"}
                     /\ fanProc[p].pair = pair }

InitFan ==
    /\ fan_badges \in BadgeTables
    /\ user_fan_status = [pr \in Pairs |-> NoRow]
    /\ fan_interactions = [pr \in Pairs |-> 0]
    /\ clock = 0
    /\ fanProc = [p \in Procs |-> IdleProc]
    /\ fanResp = NoResp
    /\ faults = 0
    /\ calls = 0
    /\ liOk = [pr \in Pairs |-> 0]
    /\ liAborted = [pr \in Pairs |-> 0]
    /\ liPending = [pr \in Pairs |-> 0]

\* POST /:fanId/interaction arrives
StartLogInteraction(p, pair, type) ==
    /\ fanProc[p].pc = "idle"
    /\ FirstFreeFan(p)
    /\ calls < MaxCalls
    /\ calls' = calls + 1
    /\ fanProc' = [fanProc EXCEPT ![p] = [pc |-> "li_log", pair |-> pair, type |-> type]]
    /\ UNCHANGED <<fan_badges, user_fan_status, fan_interactions, clock,
                   fanResp, faults, liOk, liAborted, liPending>>
    /\ UNCHANGED restFan

\* first statement: INSERT INTO fan_interactions
LiInsertLog(p) ==
    /\ fanProc[p].pc = "li_log"
    /\ fan_interactions' = [fan_interactions EXCEPT ![fanProc[p].pair] = @ + 1]
    /\ fanProc' = [fanProc EXCEPT ![p].pc = "li_upsert"]
    /\ UNCHANGED <<fan_badges, user_fan_status, clock, fanResp, faults,
                   calls, liOk, liAborted, liPending>>
    /\ UNCHANGED restFan

\* second statement: the upsert of the counters
LiUpsert(p) ==
    LET pair == fanProc[p].pair
        hit == user_fan_status[pair].present
        now == clock + 1
    IN  /\ fanProc[p].pc = "li_upsert"
        /\ clock' = IF hit THEN now ELSE clock
        /\ user_fan_status' =
             [user_fan_status EXCEPT ![pair] = UpsertRow(@, fanProc[p].type, now)]
        /\ liPending' = [liPending EXCEPT ![pair] = @ + 1]
        /\ fanProc' = [fanProc EXCEPT ![p].pc = "li_badge"]
        /\ UNCHANGED <<fan_badges, fan_interactions, fanResp, faults,
                       calls, liOk, liAborted>>
        /\ UNCHANGED restFan

\* third statement: the badge recompute, then the 'success' response
LiUpdateBadge(p) ==
    LET pair == fanProc[p].pair
        now == clock + 1
    IN  /\ fanProc[p].pc = "li_badge"
        /\ clock' = now
        /\ user_fan_status' =
             [user_fan_status EXCEPT ![pair] =
                IF @.present THEN RecomputeBadge(fan_badges, @, now) ELSE @]
        /\ liPending' = [liPending EXCEPT ![pair] = @ - 1]
        /\ liOk' = [liOk EXCEPT ![pair] = @ + 1]
        /\ fanProc' = [fanProc EXCEPT ![p] = IdleProc]
        /\ fanResp' = [status |-> "success", handler |-> "LogInteraction", data |-> NoRow]
        /\ UNCHANGED <<fan_badges, fan_interactions, faults, calls, liAborted>>
        /\ UNCHANGED restFan

\* a statement of LogInteraction throws: catch block, 500 response
LiFail(p) ==
    /\ faults < MaxFaults
    /\ faults' = faults + 1
    /\ fanProc[p].pc \in {"li_log", "li_upsert", "li_badge"}
    /\ liAborted' = [liAborted EXCEPT ![fanProc[p].pair] = @ + 1]
    /\ fanProc' = [fanProc EXCEPT ![p] = IdleProc]
    /\ fanResp' = [status |-> "error", handler |-> "LogInteraction", data |-> NoRow]
    /\ UNCHANGED <<fan_badges, user_fan_status, fan_interactions, clock,
                   calls, liOk, liPending>>
    /\ UNCHANGED restFan

\* GET /:fanId/status/:celebrityId arrives
StartGetFanStatus(p, pair) ==
    /\ fanProc[p].pc = "idle"
    /\ FirstFreeFan(p)
    /\ calls < MaxCalls
    /\ calls' = calls + 1
    /\ fanProc' = [fanProc EXCEPT ![p] = [pc |-> "gs_select", pair |-> pair, type |-> "comment"]]
    /\ UNCHANGED <<fan_badges, user_fan_status, fan_interactions, clock,
                   fanResp, faults, liOk, liAborted, liPending>>
    /\ UNCHANGED restFan

\* the SELECT: a row is returned as is, otherwise the handler goes on to insert
GsSelect(p) ==
    LET row == user_fan_status[fanProc[p].pair]
    IN  /\ fanProc[p].pc = "gs_select"
        /\ IF row.present
           THEN /\ fanProc' = [fanProc EXCEPT ![p] = IdleProc]
                /\ fanResp' = [status |-> "success", handler |-> "GetFanStatus", data |-> row]
           ELSE /\ fanProc' = [fanProc EXCEPT ![p].pc = "gs_insert"]
                /\ UNCHANGED fanResp
        /\ UNCHANGED <<fan_badges, user_fan_status, fan_interactions, clock,
                       faults, calls, liOk, liAborted, liPending>>
        /\ UNCHANGED restFan

\* the lazy INSERT ... SELECT; the unique key (fan, celebrity) that the
\* upsert's ON CONFLICT names rejects a second row for the pair
GsInsert(p) ==
    LET pair == fanProc[p].pair
        ids == BadgeIdsNamed(fan_badges, "New Fan")
    IN  /\ fanProc[p].pc = "gs_insert"
        /\ fanProc' = [fanProc EXCEPT ![p] = IdleProc]
        /\ IF user_fan_status[pair].present
           THEN /\ fanResp' = [status |-> "error", handler |-> "GetFanStatus", data |-> NoRow]
                /\ UNCHANGED user_fan_status
           ELSE IF ids = {}
           THEN /\ fanResp' = [status |-> "success", handler |-> "GetFanStatus", data |-> NoRow]
                /\ UNCHANGED user_fan_status
           ELSE LET row == NewFanRow(CHOOSE i \in ids : TRUE)
                IN  /\ user_fan_status' = [user_fan_status EXCEPT ![pair] = row]
                    /\ fanResp' = [status |-> "success", handler |-> "GetFanStatus", data |-> row]
        /\ UNCHANGED <<fan_badges, fan_interactions, clock, faults, calls,
                       liOk, liAborted, liPending>>
        /\ UNCHANGED restFan

\* a statement of GetFanStatus throws: catch block, 500 response
GsFail(p) ==
    /\ faults < MaxFaults
    /\ faults' = faults + 1
    /\ fanProc[p].pc \in {"gs_select", "gs_insert"}
    /\ fanProc' = [fanProc EXCEPT ![p] = IdleProc]
    /\ fanResp' = [status |-> "error", handler |-> "GetFanStatus", data |-> NoRow]
    /\ UNCHANGED <<fan_badges, user_fan_status, fan_interactions, clock,
                   calls, liOk, liAborted, liPending>>
    /\ UNCHANGED restFan

NextFan ==
    \/ \E p \in Procs, pair \in Pairs, type \in InteractionTypes :
          StartLogInteraction(p, pair, type)
    \/ \E p \in Procs : LiInsertLog(p)
    \/ \E p \in Procs : LiUpsert(p)
    \/ \E p \in Procs : LiUpdateBadge(p)
    \/ \E p \in Procs : LiFail(p)
    \/ \E p \in Procs, pair \in Pairs : StartGetFanStatus(p, pair)
    \/ \E p \in Procs : GsSelect(p)
    \/ \E p \in Procs : GsInsert(p)
    \/ \E p \in Procs : GsFail(p)


\* ---------------------------------------------------------------------
\* Two fans of one celebrity, a bounded number of requests
\* ---------------------------------------------------------------------
MaxPairCalls == 3

TwoFans == {"f1", "f2"}
FanPairs == TwoFans \X Celebrities

\* thresholds 0,1,2,.. and 0,2,3,..: one interaction does or does not reach
\* the second badge
PairTables == { BadgeTable(1..(Len(BadgeNames) - 1)), BadgeTable(2..Len(BadgeNames)) }

InitFanPairs ==
    /\ fan_badges \in PairTables
    /\ user_fan_status = [pr \in FanPairs |-> NoRow]
    /\ fan_interactions = [pr \in FanPairs |-> 0]
    /\ clock = 0
    /\ fanProc = [p \in Procs |-> IdleProc]
    /\ fanResp = NoResp
    /\ faults = 0
    /\ calls = 0
    /\ liOk = [pr \in FanPairs |-> 0]
    /\ liAborted = [pr \in FanPairs |-> 0]
    /\ liPending = [pr \in FanPairs |-> 0]

NextFanPairs ==
    \/ /\ calls < MaxPairCalls
       /\ \E p \in Procs, pair \in FanPairs, type \in InteractionTypes :
             StartLogInteraction(p, pair, type)
    \/ \E p \in Procs : LiInsertLog(p)
    \/ \E p \in Procs : LiUpsert(p)
    \/ \E p \in Procs : LiUpdateBadge(p)
    \/ \E p \in Procs : LiFail(p)
    \/ /\ calls < MaxPairCalls
       /\ \E p \in Procs, pair \in FanPairs : StartGetFanStatus(p, pair)
    \/ \E p \in Procs : GsSelect(p)
    \/ \E p \in Procs : GsInsert(p)
    \/ \E p \in Procs : GsFail(p)

\* ---------------------------------------------------------------------
\* Properties of the fan ledger
\* ---------------------------------------------------------------------
\* id names the highest badge whose threshold is <= total
IsHighestTier(table, id, total) ==
    \E b \in BadgeRows(table) :
        /\ b.id = id
        /\ b.min_interactions <= total
        /\ \A c \in BadgeRows(table) :
              c.min_interactions <= total => c.min_interactions <= b.min_interactions

\* position of a badge in the threshold order, 0 for no badge
TierRank(table, id) ==
    IF id = NULL THEN 0
    ELSE LET b == CHOOSE r \in BadgeRows(table) : r.id = id
         IN  Cardinality({ c \in BadgeRows(table) :
                             c.min_interactions <= b.min_interactions })

TopTierRank(table) == Cardinality(BadgeRows(table))

\* C1 as stated: in every reachable state, every existing FanStatus record
\* holds the highest tier whose threshold is <= its totalInteractions.
C1_TierAlwaysHighest ==
    \A pair \in Pairs :
        user_fan_status[pair].present =>
            IsHighestTier(fan_badges, user_fan_status[pair].current_badge_id,
                          user_fan_status[pair].total_interactions)

\* C1 amended: a FanStatus record holds the highest tier whose threshold is
\* <= totalInteractions in every state in which each LogInteraction that has
\* run its counter upsert for the pair has also run its tier recompute.
C1_TierHighestWhenRecomputed ==
    \A pair \in Pairs :
        (user_fan_status[pair].present /\ liPending[pair] = 0) =>
            IsHighestTier(fan_badges, user_fan_status[pair].current_badge_id,
                          user_fan_status[pair].total_interactions)

C1_Witness ==
    \E pair \in Pairs :
        /\ user_fan_status[pair].present
        /\ liPending[pair] = 0
        /\ liOk[pair] >= 2
        /\ TierRank(fan_badges, user_fan_status[pair].current_badge_id) >= 2

\* C2: across every step the rank of currentTier of an existing record never
\* decreases, the record is never removed, and the highest tier once held is
\* held in every later state.
C2_TierMonotone ==
    [][\A pair \in Pairs :
         user_fan_status[pair].present =>
            /\ user_fan_status'[pair].present
            /\ TierRank(fan_badges, user_fan_status'[pair].current_badge_id)
                 >= TierRank(fan_badges, user_fan_status[pair].current_badge_id)
            /\ (TierRank(fan_badges, user_fan_status[pair].current_badge_id)
                  = TopTierRank(fan_badges)
                => user_fan_status'[pair].current_badge_id
                     = user_fan_status[pair].current_badge_id)]_vars

\* the highest tier was reached and a later LogInteraction has completed
C2_Witness ==
    \E pair \in Pairs, b \in BadgeRows(fan_badges) :
        /\ TierRank(fan_badges, b.id) = TopTierRank(fan_badges)
        /\ user_fan_status[pair].current_badge_id = b.id
        /\ user_fan_status[pair].total_interactions > b.min_interactions
        /\ liPending[pair] = 0

\* C3: when no LogInteraction for a pair is in progress and none was answered
\* with an error, totalInteractions equals the number N of completed calls,
\* and the tier is the highest one whose threshold is <= totalInteractions:
\* strictly below T at minInteractions(T)-1, at T or above at minInteractions(T).
C3_QuiescentCountAndTier ==
    \A pair \in Pairs :
        (LiBusy(pair) = {} /\ liAborted[pair] = 0) =>
            LET row == user_fan_status[pair]
            IN  /\ row.total_interactions = liOk[pair]
                /\ liOk[pair] > 0 => row.present
                /\ row.present =>
                     /\ IsHighestTier(fan_badges, row.current_badge_id,
                                      row.total_interactions)
                     /\ \A t \in BadgeRows(fan_badges) :
                          /\ row.total_interactions = t.min_interactions - 1 =>
                               TierRank(fan_badges, row.current_badge_id)
                                 < TierRank(fan_badges, t.id)
                          /\ row.total_interactions = t.min_interactions =>
                               TierRank(fan_badges, row.current_badge_id)
                                 >= TierRank(fan_badges, t.id)

\* several calls for one pair have completed, the last at a tier threshold
C3_Witness ==
    \E pair \in Pairs, t \in BadgeRows(fan_badges) :
        /\ LiBusy(pair) = {}
        /\ liAborted[pair] = 0
        /\ liOk[pair] >= 3
        /\ user_fan_status[pair].total_interactions = t.min_interactions
        /\ user_fan_status[pair].current_badge_id = t.id

\* a stale tier is visible while a call is between upsert and recompute
C3_StaleWhileInProgress ==
    \E pair \in Pairs :
        /\ LiBusy(pair) # {}
        /\ user_fan_status[pair].present
        /\ ~IsHighestTier(fan_badges, user_fan_status[pair].current_badge_id,
                          user_fan_status[pair].total_interactions)

Counters(row) == <<row.total_interactions, row.comment_count, row.reaction_count>>

\* the step in which invocation p executes the counter upsert
UpsertStep(p) == fanProc[p].pc = "li_upsert" /\ fanProc'[p].pc = "li_badge"

\* the upsert of a call adds 1 to the total, 1 to the counter its type names,
\* and touches no other pair; no other step changes any counter
CountersByUpsertOnly ==
    /\ \A p \in Procs :
          UpsertStep(p) =>
             LET pair == fanProc[p].pair
                 type == fanProc[p].type
                 old == user_fan_status[pair]
                 new == user_fan_status'[pair]
             IN  /\ new.present
                 /\ new.total_interactions = old.total_interactions + 1
                 /\ new.comment_count =
                       old.comment_count + (IF type = "comment" THEN 1 ELSE 0)
                 /\ new.reaction_count =
                       old.reaction_count + (IF type = "reaction" THEN 1 ELSE 0)
                 /\ \A other \in DOMAIN user_fan_status \ {pair} :
                       user_fan_status'[other] = user_fan_status[other]
    /\ (\A p \in Procs : ~UpsertStep(p)) =>
          \A pair \in DOMAIN user_fan_status :
             Counters(user_fan_status'[pair]) = Counters(user_fan_status[pair])

\* the step that completes the only interaction ever logged for its pair, a
\* 'comment'
FirstCommentCompletes(p) ==
    /\ fanProc[p].pc = "li_badge"
    /\ fanProc[p].type = "comment"
    /\ fan_interactions[fanProc[p].pair] = 1
    /\ fanProc'[p].pc = "idle"
    /\ fanResp'.status = "success"

\* C17 as stated: a completed LogInteraction adds 1 to totalInteractions, 1 to
\* commentCount iff the type is 'comment', 1 to reactionCount iff it is
\* 'reaction', and changes the counters of no other pair; the first
\* interaction of a pair, a 'comment', leaves 1, 1, 0 and the lowest tier.
C17_CountersAndLowestTier ==
    [][/\ CountersByUpsertOnly
       /\ \A p \in Procs :
             FirstCommentCompletes(p) =>
                LET new == user_fan_status'[fanProc[p].pair]
                IN  /\ Counters(new) = <<1, 1, 0>>
                    /\ TierRank(fan_badges, new.current_badge_id) = 1]_vars

\* C17 amended: the same, except that the first comment leaves the highest
\* tier whose threshold is at most 1, which is the lowest tier only when the
\* second tier needs more than one interaction.
C17_CountersAndTierForOne ==
    [][/\ CountersByUpsertOnly
       /\ \A p \in Procs :
             FirstCommentCompletes(p) =>
                LET new == user_fan_status'[fanProc[p].pair]
                IN  /\ Counters(new) = <<1, 1, 0>>
                    /\ IsHighestTier(fan_badges, new.current_badge_id, 1)
                    /\ (\A b \in BadgeRows(fan_badges) :
                           b.badge_name # "New Fan" => b.min_interactions > 1)
                          => TierRank(fan_badges, new.current_badge_id) = 1]_vars

\* two pairs hold different counters: one after a first comment at the lowest
\* tier, the other after a reaction
C17_Witness ==
    \E a, b \in DOMAIN user_fan_status :
        /\ a # b
        /\ \A p \in Procs : fanProc[p].pc = "idle"
        /\ liOk[a] = 1 /\ liAborted[a] = 0
        /\ Counters(user_fan_status[a]) = <<1, 1, 0>>
        /\ TierRank(fan_badges, user_fan_status[a].current_badge_id) = 1
        /\ Counters(user_fan_status[b]) = <<1, 0, 1>>

\* the step in which invocation p executes the tier recompute
RecomputeStep(p) ==
    /\ fanProc[p].pc = "li_badge"
    /\ fanProc'[p].pc = "idle"
    /\ fanResp'.status = "success"

\* tierEarnedAt is set to the time of the recompute iff the tier changed
EarnedAtFollowsTier(old, new, now) ==
    IF new.current_badge_id # old.current_badge_id
    THEN new.badge_earned_at = now
    ELSE new.badge_earned_at = old.badge_earned_at

\* C18: the recompute of LogInteraction sets tierEarnedAt to the current time
\* exactly when the recomputed tier differs from the tier stored before it,
\* also on a record this call has just created, and leaves it alone otherwise.
C18_EarnedAtIffTierChanges ==
    [][\A p \in Procs :
          RecomputeStep(p) =>
             EarnedAtFollowsTier(user_fan_status[fanProc[p].pair],
                                 user_fan_status'[fanProc[p].pair], clock')]_vars

\* the part of C18 the code meets: a record that already stores a tier
C18_EarnedAtWhenTierStored ==
    [][\A p \in Procs :
          (RecomputeStep(p)
           /\ user_fan_status[fanProc[p].pair].current_badge_id # NULL) =>
             EarnedAtFollowsTier(user_fan_status[fanProc[p].pair],
                                 user_fan_status'[fanProc[p].pair], clock')]_vars

\* the step in which GetFanStatus invocation p answers 'success' from pc
GsAnswers(p, pc) ==
    /\ fanProc[p].pc = pc
    /\ fanProc'[p].pc = "idle"
    /\ fanResp'.status = "success"

\* C19: a GetFanStatus that finds no record creates one record for its pair,
\* at the lowest tier with all three counters 0, and returns it; a
\* GetFanStatus that finds a record returns it and creates or changes nothing.
C19_LazyCreateIdempotent ==
    [][\A p \in Procs :
          /\ GsAnswers(p, "gs_insert") =>
                LET pair == fanProc[p].pair
                    new == user_fan_status'[pair]
                IN  /\ ~user_fan_status[pair].present
                    /\ new.present
                    /\ Counters(new) = <<0, 0, 0>>
                    /\ TierRank(fan_badges, new.current_badge_id) = 1
                    /\ fanResp'.data = new
                    /\ \A other \in DOMAIN user_fan_status \ {pair} :
                          user_fan_status'[other] = user_fan_status[other]
          /\ GsAnswers(p, "gs_select") =>
                /\ user_fan_status[fanProc[p].pair].present
                /\ user_fan_status' = user_fan_status
                /\ fanResp'.data = user_fan_status[fanProc[p].pair]]_vars

\* two status queries and nothing else: one record, still as created, and the
\* last answer carries it
C19_Witness ==
    \E pair \in DOMAIN user_fan_status :
        /\ calls = 2 /\ faults = 0
        /\ \A p \in Procs : fanProc[p].pc = "idle"
        /\ \A other \in DOMAIN user_fan_status :
              /\ fan_interactions[other] = 0
              /\ other # pair => ~user_fan_status[other].present
        /\ user_fan_status[pair].present
        /\ Counters(user_fan_status[pair]) = <<0, 0, 0>>
        /\ fanResp = [status |-> "success", handler |-> "GetFanStatus",
                      data |-> user_fan_status[pair]]

\* C27: while no store statement fails for a reason of its own, no
\* GetFanStatus or LogInteraction call is answered with an error, whatever
\* the interleaving of the calls for a pair that had no FanStatus record.
C27_NoCallFailsOnRace ==
    faults = 0 => fanResp.status # "error"

\* C27 scenario: two GetFanStatus calls for the pair were in flight together,
\* one created the record and the other was answered with an error
C27_ScenarioReached ==
    /\ faults = 0
    /\ fanResp.status = "error"
    /\ fanResp.handler = "GetFanStatus"
    /\ user_fan_status[<<"f1", "c1">>].present
    /\ user_fan_status[<<"f1", "c1">>].total_interactions = 0

\* =====================================================================
\* Reactions (routes/reactions.js)
\* =====================================================================
MaxReactionCalls == 3
MaxReactionFaults == 1

Users == {"u1", "u2"}
Reactors == {"u1"}
ClipIds == {"clip1", "clip2", "clip9"}
RequestTypes == {"laugh", "thinking", "wow", ""}
ReactionKeys == Users \X ClipIds

validReactions == <<"laugh", "support", "care", "thinking", "applaud", "fire">>

IsValidReaction(type) == \E i \in DOMAIN validReactions : validReactions[i] = type

REACTION_POINTS ==
    [thinking |-> [wisdom |-> 25, aura |-> 5],
     support  |-> [wisdom |-> 5,  aura |-> 20],
     care     |-> [wisdom |-> 5,  aura |-> 30],
     applaud  |-> [wisdom |-> 5,  aura |-> 15],
     laugh    |-> [wisdom |-> 0,  aura |-> 10],
     fire     |-> [wisdom |-> 0,  aura |-> 10]]

\* REACTION_POINTS[reactionType] || { wisdom: 0, aura: 0 }
PointsFor(type) ==
    IF type \in DOMAIN REACTION_POINTS THEN REACTION_POINTS[type]
    ELSE [wisdom |-> 0, aura |-> 0]

\* the posts the handlers can find; clip9 names no row
wisdom_clips ==
    { [id |-> "clip1", user_id |-> "u2", content_type |-> "entertainment", is_crisis |-> FALSE],
      [id |-> "clip2", user_id |-> "u2", content_type |-> "crisis", is_crisis |-> TRUE] }

post_reaction_rules ==
    { [post_id |-> "clip2", allowed_reactions |-> {"care", "support"},
       blocked_reactions |-> {"laugh", "fire"}] }

ContentTypesTracked == { c.content_type : c \in wisdom_clips }

NoReaction == [id |-> NULL, user_id |-> "", clip_id |-> "", reaction_type |-> ""]

\* .single(): the row when exactly one matches, otherwise data is null
SingleReaction(rows) ==
    IF Cardinality(rows) = 1 THEN CHOOSE r \in rows : TRUE ELSE NoReaction

\* .from('reactions').select().eq('user_id', u).eq('clip_id', c)
ReactionsOf(table, user, clip) ==
    { r \in table : r.user_id = user /\ r.clip_id = clip }

\* mutant: the toggle test is inverted
SameReactionInverted(existing, type) == existing.reaction_type # type

\* existingReaction.reaction_type === reaction_type
SameReaction(existing, type) == existing.reaction_type = type

\* .delete().eq('id', id)
DeleteById(table, id) == { r \in table : r.id # id }

\* .update({ reaction_type }).eq('id', id)
UpdateTypeById(table, id, type) ==
    { IF r.id = id THEN [r EXCEPT !.reaction_type = type] ELSE r : r \in table }

\* .insert([{ user_id, clip_id, reaction_type }])
InsertReaction(table, id, user, clip, type) ==
    table \cup { [id |-> id, user_id |-> user, clip_id |-> clip, reaction_type |-> type] }

IdleReact ==
    [pc |-> "idle", user_id |-> "", clip_id |-> "", reaction_type |-> "",
     existing |-> NoReaction, path |-> "", cur |-> [wisdom |-> 0, aura |-> 0]]

\* error.message of the error a failed store call hands to the catch block
StoreErrorMessage == "JSON object requested, multiple (or no) rows returned"

\* the message member of each answer of POST /add
ReactMessage(status, action) ==
    CASE status = 400 /\ action = "missing" -> "user_id, clip_id, and reaction_type are required"
      [] status = 400 /\ action = "invalid" -> "Invalid reaction type"
      [] status = 403 -> "This reaction is not allowed for this content type"
      [] status = 500 -> "Failed to add reaction"
      [] action = "removed" -> "Reaction removed"
      [] action = "updated" -> "Reaction updated"
      [] OTHER -> "Reaction added successfully"

\* the body of an answer: success, message, and in the catch block
\* error: error.message ("" when the member is absent)
ReactBody(status, action) ==
    [status |-> status, action |-> action, success |-> (status = 200),
     message |-> ReactMessage(status, action),
     error |-> IF status = 500 THEN StoreErrorMessage ELSE ""]

NoReactResp ==
    [status |-> 0, action |-> "none", success |-> FALSE, message |-> "", error |-> ""]

NoPatterns == [c \in {"laugh", "thinking"} \cup ContentTypesTracked |-> 0]

FirstFreeReact(p) == \A q \in Procs : q < p => rProc[q].pc # "idle"

ReactBusy(key) ==
    { p \in Procs : rProc[p].pc # "idle" /\ <<rProc[p].user_id, rProc[p].clip_id>> = key }

InitReact ==
    /\ reactions = {}
    /\ nextReactionId = 1
    /\ users = [u \in Users |-> [wisdom_score |-> 0, aura_score |-> 0]]
    /\ behavioral_patterns = [u \in Users |-> NoPatterns]
    /\ rProc = [p \in Procs |-> IdleReact]
    /\ rResp = NoReactResp
    /\ rCalls = 0
    /\ rFaults = 0
    /\ rHist = [k \in ReactionKeys |-> <<>>]
    /\ rOverlap = [k \in ReactionKeys |-> FALSE]

LastTwo(h) == IF Len(h) > 2 THEN SubSeq(h, Len(h) - 1, Len(h)) ELSE h

\* res.json / res.status(..).json of invocation p; the invocation ends
Respond(p, status, action) ==
    LET key == <<rProc[p].user_id, rProc[p].clip_id>>
    IN  /\ rResp' = ReactBody(status, action)
        /\ rHist' = [rHist EXCEPT ![key] =
                        LastTwo(Append(@, [type |-> rProc[p].reaction_type,
                                           action |-> action]))]
        /\ rProc' = [rProc EXCEPT ![p] = IdleReact]

\* POST /add arrives; the two validation checks answer 400 at once
StartAddReaction(p, user, clip, type) ==
    /\ rProc[p].pc = "idle"
    /\ FirstFreeReact(p)
    /\ rCalls < MaxReactionCalls
    /\ rCalls' = rCalls + 1
    /\ IF type = "" \/ ~IsValidReaction(type)
       THEN /\ rResp' = ReactBody(400, IF type = "" THEN "missing" ELSE "invalid")
            /\ UNCHANGED <<rProc, rOverlap>>
       ELSE /\ rProc' = [rProc EXCEPT ![p] =
                   [IdleReact EXCEPT !.pc = "ar_post", !.user_id = user,
                                     !.clip_id = clip, !.reaction_type = type]]
            /\ rOverlap' = [rOverlap EXCEPT ![<<user, clip>>] =
                   @ \/ ReactBusy(<<user, clip>>) # {}]
            /\ UNCHANGED rResp
    /\ UNCHANGED <<reactions, nextReactionId, users, behavioral_patterns, rFaults, rHist>>
    /\ UNCHANGED restReact

\* wisdom_clips lookup with .single(): no row is an error, which is thrown
ArReadPost(p) ==
    /\ rProc[p].pc = "ar_post"
    /\ IF \E c \in wisdom_clips : c.id = rProc[p].clip_id
       THEN /\ rProc' = [rProc EXCEPT ![p].pc = "ar_rules"]
            /\ UNCHANGED <<rResp, rHist>>
       ELSE Respond(p, 500, "error")
    /\ UNCHANGED <<reactions, nextReactionId, users, behavioral_patterns,
                   rCalls, rFaults, rOverlap>>
    /\ UNCHANGED restReact

\* mutant: the blocked list is not consulted
ArReadRulesIgnored(p) ==
    /\ rProc[p].pc = "ar_rules"
    /\ rProc' = [rProc EXCEPT ![p].pc = "ar_existing"]
    /\ UNCHANGED <<rResp, rHist>>
    /\ UNCHANGED <<reactions, nextReactionId, users, behavioral_patterns,
                   rCalls, rFaults, rOverlap>>
    /\ UNCHANGED restReact

\* post_reaction_rules lookup and the blocked-reaction check
ArReadRules(p) ==
    LET rules == { r \in post_reaction_rules : r.post_id = rProc[p].clip_id }
    IN  /\ rProc[p].pc = "ar_rules"
        /\ IF \E r \in rules : Cardinality(rules) = 1
                               /\ rProc[p].reaction_type \in r.blocked_reactions
           THEN Respond(p, 403, "forbidden")
           ELSE /\ rProc' = [rProc EXCEPT ![p].pc = "ar_existing"]
                /\ UNCHANGED <<rResp, rHist>>
        /\ UNCHANGED <<reactions, nextReactionId, users, behavioral_patterns,
                       rCalls, rFaults, rOverlap>>
        /\ UNCHANGED restReact

\* where the handler goes once the lookup of the user's reaction has answered
AfterExisting(proc, existing) ==
    [proc EXCEPT
        !.existing = existing,
        !.pc = IF existing = NoReaction THEN "ar_insert"
               ELSE IF SameReaction(existing, proc.reaction_type) THEN "ar_delete"
               ELSE "ar_update"]

\* lookup of the user's reaction to the post
ArReadExisting(p) ==
    /\ rProc[p].pc = "ar_existing"
    /\ rProc' = [rProc EXCEPT ![p] =
          AfterExisting(@, SingleReaction(
              ReactionsOf(reactions, rProc[p].user_id, rProc[p].clip_id)))]
    /\ UNCHANGED <<reactions, nextReactionId, users, behavioral_patterns, rResp,
                   rCalls, rFaults, rHist, rOverlap>>
    /\ UNCHANGED restReact

\* same type again: delete the row, answer 'removed'
ArDelete(p) ==
    /\ rProc[p].pc = "ar_delete"
    /\ reactions' = DeleteById(reactions, rProc[p].existing.id)
    /\ Respond(p, 200, "removed")
    /\ UNCHANGED <<nextReactionId, users, behavioral_patterns, rCalls, rFaults, rOverlap>>
    /\ UNCHANGED restReact

\* different type: rewrite the row, then updateUserScores
ArUpdate(p) ==
    /\ rProc[p].pc = "ar_update"
    /\ reactions' = UpdateTypeById(reactions, rProc[p].existing.id, rProc[p].reaction_type)
    /\ rProc' = [rProc EXCEPT ![p].pc = "us_read", ![p].path = "updated"]
    /\ UNCHANGED <<nextReactionId, users, behavioral_patterns, rResp, rCalls,
                   rFaults, rHist, rOverlap>>
    /\ UNCHANGED restReact

\* no reaction found: insert a row, then updateUserScores
ArInsert(p) ==
    /\ rProc[p].pc = "ar_insert"
    /\ reactions' = InsertReaction(reactions, nextReactionId, rProc[p].user_id,
                                   rProc[p].clip_id, rProc[p].reaction_type)
    /\ nextReactionId' = nextReactionId + 1
    /\ rProc' = [rProc EXCEPT ![p].pc = "us_read", ![p].path = "added"]
    /\ UNCHANGED <<users, behavioral_patterns, rResp, rCalls, rFaults, rHist, rOverlap>>
    /\ UNCHANGED restReact

\* updateUserScores: read the current scores
UsRead(p) ==
    /\ rProc[p].pc = "us_read"
    /\ rProc' = [rProc EXCEPT
          ![p].pc = "us_write",
          ![p].cur = [wisdom |-> users[rProc[p].user_id].wisdom_score,
                      aura |-> users[rProc[p].user_id].aura_score]]
    /\ UNCHANGED <<reactions, nextReactionId, users, behavioral_patterns, rResp,
                   rCalls, rFaults, rHist, rOverlap>>
    /\ UNCHANGED restReact

\* what follows updateUserScores: the 'updated' answer, or pattern tracking
AfterScores(p) ==
    IF rProc[p].path = "updated"
    THEN Respond(p, 200, "updated")
    ELSE /\ rProc' = [rProc EXCEPT ![p].pc = "ar_track"]
         /\ UNCHANGED <<rResp, rHist>>

\* updateUserScores: write the scores read, plus the points of the type
UsWrite(p) ==
    LET pts == PointsFor(rProc[p].reaction_type)
    IN  /\ rProc[p].pc = "us_write"
        /\ users' = [users EXCEPT ![rProc[p].user_id] =
              [wisdom_score |-> rProc[p].cur.wisdom + pts.wisdom,
               aura_score |-> rProc[p].cur.aura + pts.aura]]
        /\ AfterScores(p)
        /\ UNCHANGED <<reactions, nextReactionId, behavioral_patterns, rCalls,
                       rFaults, rOverlap>>
        /\ UNCHANGED restReact

\* trackBehavioralPattern: the counters upsert, then the 'added' answer
ArTrack(p) ==
    LET ctype == (CHOOSE c \in wisdom_clips : c.id = rProc[p].clip_id).content_type
        type == rProc[p].reaction_type
    IN  /\ rProc[p].pc = "ar_track"
        /\ behavioral_patterns' = [behavioral_patterns EXCEPT ![rProc[p].user_id] =
              [c \in DOMAIN @ |->
                  @[c] + (IF c = type THEN 1 ELSE 0) + (IF c = ctype THEN 1 ELSE 0)]]
        /\ Respond(p, 200, "added")
        /\ UNCHANGED <<reactions, nextReactionId, users, rCalls, rFaults, rOverlap>>
        /\ UNCHANGED restReact

\* trackBehavioralPattern builds its row with the client member `sql`, which
\* this repository does not define: evaluating it may throw, and the handler's
\* catch block then answers 500 after the row and the scores were written
ArTrackThrows(p) ==
    /\ rProc[p].pc = "ar_track"
    /\ Respond(p, 500, "error")
    /\ UNCHANGED <<reactions, nextReactionId, users, behavioral_patterns, rCalls,
                   rFaults, rOverlap>>
    /\ UNCHANGED restReact

\* a store call whose error the handler throws: post lookup, delete, update, insert
ArThrow(p) ==
    /\ rFaults < MaxReactionFaults
    /\ rFaults' = rFaults + 1
    /\ rProc[p].pc \in {"ar_post", "ar_delete", "ar_update", "ar_insert"}
    /\ Respond(p, 500, "error")
    /\ UNCHANGED <<reactions, nextReactionId, users, behavioral_patterns, rCalls, rOverlap>>
    /\ UNCHANGED restReact

\* a failed lookup whose error the handler does not read: data is null
ArLookupFails(p) ==
    /\ rFaults < MaxReactionFaults
    /\ rFaults' = rFaults + 1
    /\ \/ /\ rProc[p].pc = "ar_rules"
          /\ rProc' = [rProc EXCEPT ![p].pc = "ar_existing"]
       \/ /\ rProc[p].pc = "ar_existing"
          /\ rProc' = [rProc EXCEPT ![p] = AfterExisting(@, NoReaction)]
       \/ /\ rProc[p].pc = "us_read"
          /\ rProc' = [rProc EXCEPT ![p].pc = "us_write",
                                    ![p].cur = [wisdom |-> 0, aura |-> 0]]
    /\ UNCHANGED <<reactions, nextReactionId, users, behavioral_patterns, rResp,
                   rCalls, rHist, rOverlap>>
    /\ UNCHANGED restReact

\* a failed write whose error is only logged: scores update, pattern upsert
ArWriteFails(p) ==
    /\ rFaults < MaxReactionFaults
    /\ rFaults' = rFaults + 1
    /\ \/ /\ rProc[p].pc = "us_write"
          /\ AfterScores(p)
       \/ /\ rProc[p].pc = "ar_track"
          /\ Respond(p, 200, "added")
    /\ UNCHANGED <<reactions, nextReactionId, users, behavioral_patterns, rCalls, rOverlap>>
    /\ UNCHANGED restReact

NextReact ==
    \/ \E p \in Procs, user \in Reactors, clip \in ClipIds, type \in RequestTypes :
          StartAddReaction(p, user, clip, type)
    \/ \E p \in Procs : ArReadPost(p)
    \/ \E p \in Procs : ArReadRules(p)
    \/ \E p \in Procs : ArReadExisting(p)
    \/ \E p \in Procs : ArDelete(p)
    \/ \E p \in Procs : ArUpdate(p)
    \/ \E p \in Procs : ArInsert(p)
    \/ \E p \in Procs : UsRead(p)
    \/ \E p \in Procs : UsWrite(p)
    \/ \E p \in Procs : ArTrack(p)
    \/ \E p \in Procs : ArTrackThrows(p)
    \/ \E p \in Procs : ArThrow(p)
    \/ \E p \in Procs : ArLookupFails(p)
    \/ \E p \in Procs : ArWriteFails(p)

\* ---------------------------------------------------------------------
\* Properties of the reaction toggle
\* ---------------------------------------------------------------------
\* C4: in every reachable state a user holds at most one active reaction
\* per post.
C4_AtMostOneActive ==
    \A key \in ReactionKeys :
        Cardinality(ReactionsOf(reactions, key[1], key[2])) <= 1

C5_WitnessReplace ==
    \E key \in ReactionKeys :
        /\ ~rOverlap[key] /\ rFaults = 0 /\ ReactBusy(key) = {}
        /\ Len(rHist[key]) = 2
        /\ rHist[key][1].action = "added"
        /\ rHist[key][2].action = "updated"
        /\ rHist[key][2].type # rHist[key][1].type

\* C16: while no store call fails, every step either leaves a user's scores
\* alone or is the score write of an 'added' / 'updated' call of that user and
\* adds exactly the award of the call's reaction type; a 'removed' call
\* writes no score; so no score ever decreases.
C16_AwardsExactAndMonotone ==
    [][rFaults' = 0 =>
        \A u \in Users :
            \/ users'[u] = users[u]
            \/ \E p \in Procs :
                  /\ rProc[p].pc = "us_write"
                  /\ rProc[p].user_id = u
                  /\ rProc[p].path \in {"added", "updated"}
                  /\ users'[u].wisdom_score =
                        users[u].wisdom_score + PointsFor(rProc[p].reaction_type).wisdom
                  /\ users'[u].aura_score =
                        users[u].aura_score + PointsFor(rProc[p].reaction_type).aura]_vars

\* the conclusion of C16 alone: no step lowers a score
C16_ScoresNeverDecrease ==
    [][rFaults' = 0 =>
        \A u \in Users :
            /\ users'[u].wisdom_score >= users[u].wisdom_score
            /\ users'[u].aura_score >= users[u].aura_score]_vars

\* the post's rules list the type as blocked
IsBlocked(clip, type) ==
    \E r \in post_reaction_rules : r.post_id = clip /\ type \in r.blocked_reactions

\* invocation p takes a step, and no store call fails in it
ReactStep(p) == rProc'[p] # rProc[p] /\ rFaults' = rFaults

\* C25: when the rules lookup of an AddReaction call answers and the post's
\* rules block the requested type, the call is answered 403 and ends; the step
\* changes no reaction row and no score, whatever reaction the user holds.
C25_BlockedIsForbidden ==
    [][ \A p \in Procs :
          (/\ rProc[p].pc = "ar_rules"
           /\ IsBlocked(rProc[p].clip_id, rProc[p].reaction_type)
           /\ ReactStep(p)) =>
              /\ rResp'.status = 403
              /\ rResp'.success = FALSE
              /\ rProc'[p].pc = "idle"
              /\ reactions' = reactions
              /\ users' = users
              /\ behavioral_patterns' = behavioral_patterns
      ]_vars

\* C25 witness: a call for a blocked type was answered 403 while the user
\* holds a reaction of that very type on the post, which is still there
C25_Witness ==
    \E key \in ReactionKeys :
        /\ Len(rHist[key]) > 0
        /\ rHist[key][Len(rHist[key])].action = "forbidden"
        /\ rResp.status = 403
        /\ ReactBusy(key) = {}
        /\ \E r \in ReactionsOf(reactions, key[1], key[2]) :
              /\ r.reaction_type = rHist[key][Len(rHist[key])].type
              /\ IsBlocked(key[2], r.reaction_type)

\* C26: when two AddReaction calls of one user on two different posts have
\* both been answered 'added', no other call was made and no store call
\* failed, the user's wisdomScore and auraScore equal the sum of the two awards.
C26_ConcurrentAwardsSum ==
    \A u \in Reactors :
        LET h1 == rHist[<<u, "clip1">>]
            h2 == rHist[<<u, "clip2">>]
        IN  (/\ rFaults = 0
             /\ rCalls = 2
             /\ \A p \in Procs : rProc[p].pc = "idle"
             /\ Len(h1) = 1 /\ h1[1].action = "added"
             /\ Len(h2) = 1 /\ h2[1].action = "added") =>
                /\ users[u].wisdom_score =
                      PointsFor(h1[1].type).wisdom + PointsFor(h2[1].type).wisdom
                /\ users[u].aura_score =
                      PointsFor(h1[1].type).aura + PointsFor(h2[1].type).aura

\* C22: every failure answer of AddReaction carries success = false and a
\* fixed human-readable message, and no member of it is the message of the
\* underlying store error.
C22_FailuresDoNotLeak ==
    (rResp.status # 0 /\ rResp.status # 200) =>
        /\ rResp.success = FALSE
        /\ rResp.message # ""
        /\ rResp.message # StoreErrorMessage
        /\ rResp.error # StoreErrorMessage

\* C22 for the answers that no store error causes: 400 and 403
C22_ValidationFailures ==
    rResp.status \in {400, 403} =>
        /\ rResp.success = FALSE
        /\ rResp.message # ""
        /\ rResp.error = ""

\* =====================================================================
\* Feed scoring (routes/feed.js)
\* =====================================================================
\* Scores are kept in tenths of a point: totalEngagement / 10 is the only
\* fractional term, so 10 x score is always an integer.  Strings are
\* sequences of one-character strings.  A post's age is Date.now() minus
\* created_at, in minutes.

Min(a, b) == IF a < b THEN a ELSE b

\* String.prototype.toLowerCase over the model's alphabet
LowerChar(c) == CASE c = "A" -> "a" [] c = "B" -> "b" [] OTHER -> c

toLowerCase(str) == [i \in 1..Len(str) |-> LowerChar(str[i])]

\* String.prototype.includes
includes(str, sub) ==
    \E i \in 1..(Len(str) - Len(sub) + 1) : SubSeq(str, i, i + Len(sub) - 1) = sub

\* mutant: the afternoon bucket swallows hour 17
getTimeBasedPreferenceLate(h) ==
    IF h >= 6 /\ h < 12 THEN "morning"
    ELSE IF h >= 12 /\ h <= 17 THEN "afternoon"
    ELSE IF h >= 17 /\ h < 22 THEN "evening"
    ELSE "night"

\* mutant: hour 12 still counts as morning
getTimeBasedPreferenceInclusive(h) ==
    IF h >= 6 /\ h <= 12 THEN "morning"
    ELSE IF h >= 12 /\ h < 17 THEN "afternoon"
    ELSE IF h >= 17 /\ h < 22 THEN "evening"
    ELSE "night"

getTimeBasedPreference(h) ==
    IF h >= 6 /\ h < 12 THEN "morning"
    ELSE IF h >= 12 /\ h < 17 THEN "afternoon"
    ELSE IF h >= 17 /\ h < 22 THEN "evening"
    ELSE "night"

\* mutant: the result is returned unclamped
ClampNone(score) == score

\* Math.max(0, score)
Clamp(score) == IF score > 0 THEN score ELSE 0

\* the recency ladder on hoursAgo
RecencyBonus(ageMinutes) ==
    IF ageMinutes < 60 THEN 300
    ELSE IF ageMinutes < 360 THEN 200
    ELSE IF ageMinutes < 1440 THEN 100
    ELSE 0

\* the mood-matching block; post.reactions?.x > n is false without reactions
MoodBonus(p, mood) ==
    IF mood = "fun-seeking"
    THEN (IF p.content_type = "entertainment" THEN 400 ELSE 0)
         + (IF p.reactions.present /\ p.reactions.laugh > 10 THEN 300 ELSE 0)
    ELSE IF mood = "learning"
    THEN (IF p.content_type = "educational" THEN 400 ELSE 0)
         + (IF p.reactions.present /\ p.reactions.thinking > 5 THEN 300 ELSE 0)
    ELSE IF mood = "supportive"
    THEN (IF p.content_type = "inspirational" THEN 400 ELSE 0)
         + (IF p.reactions.present /\ p.reactions.care > 5 THEN 300 ELSE 0)
    ELSE 0

\* the time-based preference block
TimeBonus(p, timePref) ==
    IF timePref = "morning"
    THEN IF p.content_type = "motivational" \/ p.content_type = "news" THEN 250 ELSE 0
    ELSE IF timePref = "afternoon"
    THEN IF p.content_type = "educational" THEN 250 ELSE 0
    ELSE IF timePref = "evening"
    THEN IF p.content_type = "entertainment" \/ p.content_type = "social" THEN 250 ELSE 0
    ELSE 0

\* userPassions.forEach(passion => { if (postHashtags.some(tag =>
\*   tag.includes(passion.toLowerCase()))) score += 35 })
RECURSIVE PassionBonus(_, _)
PassionBonus(postHashtags, passions) ==
    IF passions = <<>> THEN 0
    ELSE (IF \E t \in DOMAIN postHashtags :
                includes(postHashtags[t], toLowerCase(Head(passions)))
          THEN 350 ELSE 0)
         + PassionBonus(postHashtags, Tail(passions))

\* calculateContentScore, statement by statement
calculateContentScore(p, mood, timePref, passions) ==
    LET totalEngagement ==
            (IF p.reactions.present THEN p.reactions.total ELSE 0) + p.comment_count
        s1 == Min(totalEngagement, 500)
        s2 == s1 + RecencyBonus(p.age_minutes)
        s3 == s2 + MoodBonus(p, mood)
        s4 == s3 + TimeBonus(p, timePref)
        s5 == s4 + PassionBonus(p.hashtags, passions)
        s6 == s5 + (IF p.users.aura_score > 800 THEN 150 ELSE 0)
        s7 == s6 + (IF p.users.wisdom_score > 800 THEN 150 ELSE 0)
        s8 == s7 - (IF p.is_crisis THEN 200 ELSE 0)
        s9 == s8 - (IF p.needs_fact_check THEN 150 ELSE 0)
    IN  Clamp(s9)

\* ---- inputs ----
Moods == {"fun-seeking", "learning", "supportive", "energized", "balanced", "neutral"}
TimePreferences == {"morning", "afternoon", "evening", "night"}
ContentTypes == {"entertainment", "educational", "inspirational", "motivational",
                 "news", "social", "other"}
Hours == 0..23

NoReactions == [present |-> FALSE, total |-> 0, laugh |-> 0, thinking |-> 0, care |-> 0]

\* reaction tallies as the feed attaches them (total = number of reactions)
ReactionTallies ==
    { NoReactions,
      [present |-> TRUE, total |-> 20,  laugh |-> 10, thinking |-> 5, care |-> 5],
      [present |-> TRUE, total |-> 23,  laugh |-> 11, thinking |-> 6, care |-> 6],
      [present |-> TRUE, total |-> 498, laugh |-> 11, thinking |-> 5, care |-> 6] }

\* (reaction tally, comment_count) as attached to one post
Engagements ==
    { <<NoReactions, 0>>, <<NoReactions, 7>> }
    \cup { <<t, 0>> : t \in ReactionTallies \ {NoReactions} }
    \cup { <<t, 7>> : t \in { u \in ReactionTallies : u.total >= 23 } }

\* (aura_score, wisdom_score) of the post's author
AuthorScorePairs == { <<800, 800>>, <<801, 800>>, <<800, 801>>, <<801, 801>> }
AgesInMinutes == {30, 60, 359, 360, 1439, 1440}

tagA  == <<"#", "a">>
tagUA == <<"#", "A">>
tagB  == <<"#", "b">>
tagAB == <<"#", "a", "b">>
tagUAB == <<"#", "A", "b">>

\* hashtags as extractHashtags stores them (lowercased) and as the silent
\* repost route stores them ('#SilentRepost': mixed case)
TagWords == {tagA, tagUA, tagB, tagAB, tagUAB}
PassionWords == { <<"a">>, <<"A">>, <<"b">>, <<"a", "b">>, <<"A", "B">>, <<"c">> }

SeqsUpTo2(S) == {<<>>} \cup { <<x>> : x \in S } \cup { <<x, y>> : x \in S, y \in S }

Post(tally, commentCount, age, ctype, tags, aura, wisdom, crisis, factCheck) ==
    [reactions |-> tally, comment_count |-> commentCount, age_minutes |-> age,
     content_type |-> ctype, hashtags |-> tags,
     users |-> [aura_score |-> aura, wisdom_score |-> wisdom],
     is_crisis |-> crisis, needs_fact_check |-> factCheck]

QuietPost == Post(NoReactions, 0, 1440, "other", <<>>, 0, 0, FALSE, FALSE)

ScoreAtRest ==
    /\ post = QuietPost
    /\ userMood = "neutral"
    /\ hour = 0
    /\ timePreference = ""
    /\ userPassions = <<>>
    /\ feed_score = 0
    /\ sPc = "idle"

\* every combination of the scored signals, the time preference already known
InitScore ==
    /\ post \in { Post(e[1], e[2], age, ctype, tags, a[1], a[2], crisis, fc) :
                    e \in Engagements,
                    age \in AgesInMinutes, ctype \in ContentTypes,
                    tags \in {<<>>, <<tagB, tagUA>>},
                    a \in AuthorScorePairs,
                    crisis \in BOOLEAN, fc \in BOOLEAN }
    /\ userMood \in Moods
    /\ hour = 0
    /\ timePreference \in TimePreferences
    /\ userPassions \in {<<>>, <<<<"A">>, <<"b">>>>}
    /\ feed_score = 0
    /\ sPc = "score"

\* hashtag and passion strings in every arrangement, the other signals fixed
InitPassion ==
    /\ post \in { Post(NoReactions, 0, 1440, "other", tags, 0, 0, crisis, FALSE) :
                    tags \in SeqsUpTo2(TagWords), crisis \in BOOLEAN }
    /\ userMood = "neutral"
    /\ hour = 0
    /\ timePreference = "night"
    /\ userPassions \in SeqsUpTo2(PassionWords)
    /\ feed_score = 0
    /\ sPc = "score"

\* const timePreference = getTimeBasedPreference()
ComputeTimePreference ==
    /\ sPc = "time"
    /\ timePreference' = getTimeBasedPreference(hour)
    /\ sPc' = "score"
    /\ UNCHANGED <<post, userMood, hour, userPassions, feed_score>>
    /\ UNCHANGED restScore

\* feed_score: calculateContentScore(post, userMood, timePreference, userPassions)
ScorePost ==
    /\ sPc = "score"
    /\ feed_score' = calculateContentScore(post, userMood, timePreference, userPassions)
    /\ sPc' = "done"
    /\ UNCHANGED <<post, userMood, hour, timePreference, userPassions>>
    /\ UNCHANGED restScore

\* the scenario post of C8 under every hour of the day; hashtags and passions
\* range over the pairs in which no passion matches any hashtag
InitScenario ==
    /\ post \in { Post(tally, 0, 30, "entertainment", tags, a, a, FALSE, FALSE) :
                    tally \in { NoReactions,
                                [present |-> TRUE, total |-> 0, laugh |-> 0,
                                 thinking |-> 0, care |-> 0] },
                    tags \in SeqsUpTo2({tagA, tagUA}),
                    a \in {0, 800} }
    /\ userMood = "fun-seeking"
    /\ hour \in Hours
    /\ timePreference = ""
    /\ userPassions \in SeqsUpTo2({ <<"b">>, <<"c">> })
    /\ feed_score = 0
    /\ sPc = "time"

NextScenario == ComputeTimePreference \/ ScorePost

\* ---------------------------------------------------------------------
\* Properties of calculateContentScore (scores in tenths)
\* ---------------------------------------------------------------------
EngagementTerm(p) ==
    LET reactionCount == IF p.reactions.present THEN p.reactions.total ELSE 0
        e == reactionCount + p.comment_count
    IN  IF e >= 500 THEN 500 ELSE e

RecencyTerm(p) ==
    CASE p.age_minutes < 60 -> 300
      [] p.age_minutes >= 60 /\ p.age_minutes < 360 -> 200
      [] p.age_minutes >= 360 /\ p.age_minutes < 1440 -> 100
      [] p.age_minutes >= 1440 -> 0

Holds(cond, points) == IF cond THEN points ELSE 0

ReactionCountOf(p, kind) ==
    IF ~p.reactions.present THEN 0
    ELSE CASE kind = "laugh" -> p.reactions.laugh
           [] kind = "thinking" -> p.reactions.thinking
           [] kind = "care" -> p.reactions.care

MoodTerm(p, mood) ==
      Holds(mood = "fun-seeking" /\ p.content_type = "entertainment", 400)
    + Holds(mood = "fun-seeking" /\ ReactionCountOf(p, "laugh") > 10, 300)
    + Holds(mood = "learning" /\ p.content_type = "educational", 400)
    + Holds(mood = "learning" /\ ReactionCountOf(p, "thinking") > 5, 300)
    + Holds(mood = "supportive" /\ p.content_type = "inspirational", 400)
    + Holds(mood = "supportive" /\ ReactionCountOf(p, "care") > 5, 300)

TimeTerm(p, timePref) ==
      Holds(timePref = "morning" /\ p.content_type \in {"motivational", "news"}, 250)
    + Holds(timePref = "afternoon" /\ p.content_type = "educational", 250)
    + Holds(timePref = "evening" /\ p.content_type \in {"entertainment", "social"}, 250)

QualityTerm(p) ==
    Holds(p.users.aura_score > 800, 150) + Holds(p.users.wisdom_score > 800, 150)

SafetyTerm(p) ==
    0 - Holds(p.is_crisis, 200) - Holds(p.needs_fact_check, 150)

\* the passions (by position) that some hashtag contains, letter case ignored
CaseInsensitiveMatches(tags, passions) ==
    { i \in DOMAIN passions :
        \E t \in DOMAIN tags : includes(toLowerCase(tags[t]), toLowerCase(passions[i])) }

PassionTerm(p, passions) == 350 * Cardinality(CaseInsensitiveMatches(p.hashtags, passions))

NonPassionSum(p, mood, timePref) ==
    EngagementTerm(p) + RecencyTerm(p) + MoodTerm(p, mood) + TimeTerm(p, timePref)
      + QualityTerm(p) + SafetyTerm(p)

DocumentedSum(p, mood, timePref, passions) ==
    NonPassionSum(p, mood, timePref) + PassionTerm(p, passions)

\* C6: the returned score is never negative.
C6_ScoreNonNegative == sPc = "done" => feed_score >= 0

\* both safety flags on a stale post without any bonus: the raw sum is negative
C6_Witness ==
    /\ sPc = "done"
    /\ post.is_crisis /\ post.needs_fact_check
    /\ post.age_minutes >= 1440
    /\ DocumentedSum(post, userMood, timePreference, userPassions) < 0
    /\ feed_score = 0

\* C7: the returned score is max(0, S), S the sum of the documented terms.
C7_ScoreIsClampedSum ==
    sPc = "done" =>
        LET sum == DocumentedSum(post, userMood, timePreference, userPassions)
        IN  feed_score = IF sum > 0 THEN sum ELSE 0

\* the same equation on posts whose hashtags are all lower case
C7_ClampedSumOnLowerCaseTags ==
    (sPc = "done" /\ \A t \in DOMAIN post.hashtags :
                        post.hashtags[t] = toLowerCase(post.hashtags[t])) =>
        LET sum == DocumentedSum(post, userMood, timePreference, userPassions)
        IN  feed_score = IF sum > 0 THEN sum ELSE 0

\* C8 as stated: the scenario post scores exactly 70 for a fun-seeking user.
C8_ScenarioScores70 == sPc = "done" => feed_score = 700

\* C8 amended: the scenario post scores 70 unless the request is served in
\* the evening (hours 17..21), when the entertainment time match makes it 95.
C8_ScenarioScoreByHour ==
    sPc = "done" => feed_score = IF hour \in 17..21 THEN 950 ELSE 700

C8_Witness == sPc = "done" /\ hour = 17 /\ feed_score = 950

\* C9: when no other term contributes, the score is 35 for every passion
\* that some hashtag of the post contains, letter case ignored on both sides.
C9_PassionTermCaseInsensitive ==
    (sPc = "done" /\ NonPassionSum(post, userMood, timePreference) = 0) =>
        feed_score = 350 * Cardinality(CaseInsensitiveMatches(post.hashtags, userPassions))

\* the documented bucket of an hour
DocumentedBucket(h) ==
    CASE h \in 6..11 -> "morning"
      [] h \in 12..16 -> "afternoon"
      [] h \in 17..21 -> "evening"
      [] h \in (22..23) \cup (0..5) -> "night"

\* C11: for every hour 0..23 GetTimePreference returns exactly one bucket, the
\* documented one: morning for 6..11, afternoon for 12..16, evening for
\* 17..21, night for 22..23 and 0..5.
C11_HourBuckets ==
    sPc # "time" =>
        /\ timePreference \in TimePreferences
        /\ timePreference = DocumentedBucket(hour)

\* a boundary hour has been classified
C11_Witness ==
    /\ sPc # "time"
    /\ hour \in {6, 12, 17, 22, 0}
    /\ timePreference = DocumentedBucket(hour)

\* =====================================================================
\* Mood detection (routes/feed.js)
\* =====================================================================
MaxHistory == 11
MoodWindow == 10

ReactionTypes == <<"laugh", "support", "care", "thinking", "applaud", "fire">>

RECURSIVE Repeat(_, _)
Repeat(x, n) == IF n = 0 THEN <<>> ELSE <<x>> \o Repeat(x, n - 1)

\* a history made of one run per reaction type, the runs in the order of
\* ReactionTypes rotated by rot
RECURSIVE Runs(_, _, _)
Runs(counts, rot, k) ==
    IF k > Len(ReactionTypes) THEN <<>>
    ELSE LET i == ((rot + k - 1) % Len(ReactionTypes)) + 1
         IN  Repeat(ReactionTypes[i], counts[i]) \o Runs(counts, rot, k + 1)

\* .order('created_at', { ascending: false }).limit(10)
NewestFirstLimit(history, n) == SubSeq(history, 1, Min(n, Len(history)))

\* recentReactions.forEach(r => { if (counts.hasOwnProperty(...)) counts[...]++ })
RECURSIVE CountReactions(_, _)
CountReactions(rows, counts) ==
    IF rows = <<>> THEN counts
    ELSE CountReactions(Tail(rows),
            IF Head(rows) \in DOMAIN counts
            THEN [counts EXCEPT ![Head(rows)] = @ + 1] ELSE counts)

ZeroCounts == [laugh |-> 0, support |-> 0, care |-> 0, thinking |-> 0,
               applaud |-> 0, fire |-> 0]

\* mutant: the learning rule fires one reaction early
detectUserMoodEarly(result) ==
    IF ~result.ok \/ Len(result.rows) = 0 THEN "neutral"
    ELSE LET counts == CountReactions(result.rows, ZeroCounts)
         IN  IF counts.laugh + counts.fire > 6 THEN "fun-seeking"
             ELSE IF counts.thinking >= 5 THEN "learning"
             ELSE IF counts.care + counts.support > 5 THEN "supportive"
             ELSE IF counts.applaud + counts.fire > 5 THEN "energized"
             ELSE "balanced"

\* detectUserMood after the query: null or empty data gives 'neutral'
detectUserMood(result) ==
    IF ~result.ok \/ Len(result.rows) = 0 THEN "neutral"
    ELSE LET counts == CountReactions(result.rows, ZeroCounts)
         IN  IF counts.laugh + counts.fire > 6 THEN "fun-seeking"
             ELSE IF counts.thinking > 5 THEN "learning"
             ELSE IF counts.care + counts.support > 5 THEN "supportive"
             ELSE IF counts.applaud + counts.fire > 5 THEN "energized"
             ELSE "balanced"

NoResult == [ok |-> FALSE, rows |-> <<>>]

MoodAtRest ==
    /\ reactionHistory = <<>>
    /\ recentReactions = NoResult
    /\ detectedMood = ""
    /\ mPc = "idle"

InitMood ==
    /\ \E c1 \in 0..MaxHistory :
       \E c2 \in 0..(MaxHistory - c1) :
       \E c3 \in 0..(MaxHistory - c1 - c2) :
       \E c4 \in 0..(MaxHistory - c1 - c2 - c3) :
       \E c5 \in 0..(MaxHistory - c1 - c2 - c3 - c4) :
       \E c6 \in 0..(MaxHistory - c1 - c2 - c3 - c4 - c5) :
       \E rot \in 0..(Len(ReactionTypes) - 1) :
          reactionHistory = Runs(<<c1, c2, c3, c4, c5, c6>>, rot, 1)
    /\ recentReactions = NoResult
    /\ detectedMood = ""
    /\ mPc = "query"

\* the lookback query answers with the newest rows
MoodQuery ==
    /\ mPc = "query"
    /\ recentReactions' = [ok |-> TRUE, rows |-> NewestFirstLimit(reactionHistory, MoodWindow)]
    /\ mPc' = "classify"
    /\ UNCHANGED <<reactionHistory, detectedMood>>
    /\ UNCHANGED restMood

\* the lookback query fails: data is null
MoodQueryFails ==
    /\ mPc = "query"
    /\ recentReactions' = NoResult
    /\ mPc' = "classify"
    /\ UNCHANGED <<reactionHistory, detectedMood>>
    /\ UNCHANGED restMood

\* the classification of the rows the query returned
MoodClassify ==
    /\ mPc = "classify"
    /\ detectedMood' = detectUserMood(recentReactions)
    /\ mPc' = "done"
    /\ UNCHANGED <<reactionHistory, recentReactions>>
    /\ UNCHANGED restMood

NextMood == MoodQuery \/ MoodQueryFails \/ MoodClassify

\* ---------------------------------------------------------------------
\* Properties of detectUserMood
\* ---------------------------------------------------------------------
Occurrences(w, type) == Cardinality({ i \in DOMAIN w : w[i] = type })

\* the most recent (at most 10) reactions of the history
LookbackWindow == [i \in 1..Min(10, Len(reactionHistory)) |-> reactionHistory[i]]

MoodByRules(w) ==
    CASE w = <<>> -> "neutral"
      [] w # <<>> /\ Occurrences(w, "laugh") + Occurrences(w, "fire") > 6 -> "fun-seeking"
      [] OTHER ->
           IF Occurrences(w, "thinking") > 5 THEN "learning"
           ELSE IF Occurrences(w, "care") + Occurrences(w, "support") > 5 THEN "supportive"
           ELSE IF Occurrences(w, "applaud") + Occurrences(w, "fire") > 5 THEN "energized"
           ELSE "balanced"

\* C10: when the lookback query answers, the mood is neutral iff the window
\* of the most recent (at most 10) reactions is empty, and otherwise the first
\* rule that holds in the fixed order; laugh+fire > 6 wins over every other
\* count and six thinking reactions give learning.
C10_MoodByPriority ==
    (mPc = "done" /\ recentReactions.ok) =>
        LET w == LookbackWindow
        IN  /\ detectedMood = MoodByRules(w)
            /\ detectedMood = "neutral" <=> w = <<>>
            /\ Occurrences(w, "laugh") + Occurrences(w, "fire") > 6
                 => detectedMood = "fun-seeking"
            /\ w = Repeat("thinking", 6) => detectedMood = "learning"

\* the first rule wins although the energized rule holds as well, on a window
\* cut from a longer history
C10_Witness ==
    /\ mPc = "done" /\ recentReactions.ok
    /\ Len(reactionHistory) > 10
    /\ Occurrences(LookbackWindow, "laugh") + Occurrences(LookbackWindow, "fire") > 6
    /\ Occurrences(LookbackWindow, "applaud") + Occurrences(LookbackWindow, "fire") > 5
    /\ detectedMood = "fun-seeking"

C10_WitnessSixThinking ==
    /\ mPc = "done" /\ recentReactions.ok
    /\ reactionHistory = Repeat("thinking", 6)
    /\ detectedMood = "learning"

\* =====================================================================
\* Specifications: one per subsystem, the other subsystems at rest
\* =====================================================================
\* the fan ledger before any request, with one badge table
\* =====================================================================
\* Feed pagination (routes/feed.js, GET /personalized/:userId, steps 9-12)
\* =====================================================================
\* A JS value is a number [kind |-> "number", n |-> ..] or a string of decimal
\* digits [kind |-> "string", s |-> <<"2", "0">>]: req.query holds strings,
\* the destructuring defaults are numbers.
MaxPosts == 3

DefaultLimit == 20
DefaultOffset == 0
FollowingFetchLimit == 50
DiscoveryFetchLimit == 30

Digits == <<"0", "1", "2", "3", "4", "5", "6", "7", "8", "9">>

DigitValue(d) == (CHOOSE i \in DOMAIN Digits : Digits[i] = d) - 1

JsNumber(n) == [kind |-> "number", n |-> n, s |-> <<>>]
JsString(str) == [kind |-> "string", n |-> 0, s |-> str]

\* Number.prototype.toString of a non-negative integer
RECURSIVE NumberToString(_)
NumberToString(n) ==
    IF n < 10 THEN <<Digits[n + 1]>>
    ELSE NumberToString(n \div 10) \o <<Digits[(n % 10) + 1]>>

\* ToNumber of a string of decimal digits (leading zeros allowed)
RECURSIVE StringToNumber(_)
StringToNumber(str) ==
    IF str = <<>> THEN 0
    ELSE 10 * StringToNumber(SubSeq(str, 1, Len(str) - 1)) + DigitValue(str[Len(str)])

JsToString(v) == IF v.kind = "string" THEN v.s ELSE NumberToString(v.n)
JsToNumber(v) == IF v.kind = "number" THEN v.n ELSE StringToNumber(v.s)

\* the binary + of JS: numeric addition of two numbers, otherwise the
\* concatenation of the operands' string forms
JsAdd(a, b) ==
    IF a.kind = "number" /\ b.kind = "number" THEN JsNumber(a.n + b.n)
    ELSE JsString(JsToString(a) \o JsToString(b))

\* Array.prototype.slice(start, end) for non-negative arguments
ArraySlice(arr, start, end) ==
    LET len == Len(arr)
        from == Min(JsToNumber(start), len)
        to == Min(JsToNumber(end), len)
    IN  IF to > from THEN SubSeq(arr, from + 1, to) ELSE <<>>

\* merge of two sorted runs; on equal scores the left run goes first: an
\* element of the left run is preceded by the right elements that score
\* higher, an element of the right run by the left elements that score at
\* least as high
MergeByScore(left, right) ==
    LET posLeft(i) == i + Cardinality({ j \in DOMAIN right :
                              right[j].feed_score > left[i].feed_score })
        posRight(j) == j + Cardinality({ i \in DOMAIN left :
                              left[i].feed_score >= right[j].feed_score })
    IN  [k \in 1..(Len(left) + Len(right)) |->
            IF \E i \in DOMAIN left : posLeft(i) = k
            THEN left[CHOOSE i \in DOMAIN left : posLeft(i) = k]
            ELSE right[CHOOSE j \in DOMAIN right : posRight(j) = k]]

\* scoredPosts.sort((a, b) => b.feed_score - a.feed_score): the engine's
\* stable merge sort, descending by feed_score
RECURSIVE SortByScore(_)
SortByScore(arr) ==
    IF Len(arr) <= 1 THEN arr
    ELSE LET mid == Len(arr) \div 2
         IN  MergeByScore(SortByScore(SubSeq(arr, 1, mid)),
                          SortByScore(SubSeq(arr, mid + 1, Len(arr))))

FeedScores == {0, 700, 950}

\* candidate lists in fetch order; the id of a post is its fetch position
CandidateLists ==
    UNION { { [i \in 1..n |-> [id |-> i, feed_score |-> f[i]]] :
                f \in [1..n -> FeedScores] } : n \in 0..MaxPosts }

\* a full pool: 50 posts of followed users and 30 discovery posts
FullPool ==
    [i \in 1..(FollowingFetchLimit + DiscoveryFetchLimit) |->
        [id |-> i, feed_score |-> ((i * 7) % 13) * 50]]

QueryValues(strings, default) ==
    { JsNumber(default) } \cup { JsString(str) : str \in strings }

NoFeedResp == [sent |-> FALSE, feed |-> <<>>, count |-> 0, total_analyzed |-> 0]

PageAtRest ==
    /\ query = [limit |-> JsNumber(DefaultLimit), offset |-> JsNumber(DefaultOffset)]
    /\ scoredPosts = <<>>
    /\ paginatedPosts = <<>>
    /\ feedResp = NoFeedResp
    /\ fPc = "idle"

\* a feed request whose candidates have been fetched and scored
InitPage ==
    /\ \/ /\ scoredPosts \in CandidateLists
          /\ query \in [limit : QueryValues({<<"1">>, <<"2">>, <<"2", "0">>}, DefaultLimit),
                        offset : QueryValues({<<"0">>, <<"1">>, <<"2">>}, DefaultOffset)]
       \/ /\ scoredPosts = FullPool
          /\ query \in [limit : QueryValues({<<"2", "0">>}, DefaultLimit),
                        offset : QueryValues({<<"0">>}, DefaultOffset)]
    /\ paginatedPosts = <<>>
    /\ feedResp = NoFeedResp
    /\ fPc = "sort"

\* step 10: sort by score
FeedSort ==
    /\ fPc = "sort"
    /\ scoredPosts' = SortByScore(scoredPosts)
    /\ fPc' = "paginate"
    /\ UNCHANGED <<query, paginatedPosts, feedResp>>
    /\ UNCHANGED restPage

\* step 11: scoredPosts.slice(offset, offset + limit)
FeedPaginate ==
    /\ fPc = "paginate"
    /\ paginatedPosts' = ArraySlice(scoredPosts, query.offset,
                                    JsAdd(query.offset, query.limit))
    /\ fPc' = "respond"
    /\ UNCHANGED <<query, scoredPosts, feedResp>>
    /\ UNCHANGED restPage

\* step 12 and res.json: the page, in order, with its counts
FeedRespond ==
    /\ fPc = "respond"
    /\ feedResp' = [sent |-> TRUE, feed |-> paginatedPosts,
                    count |-> Len(paginatedPosts),
                    total_analyzed |-> Len(scoredPosts)]
    /\ fPc' = "done"
    /\ UNCHANGED <<query, scoredPosts, paginatedPosts>>
    /\ UNCHANGED restPage

NextPage == FeedSort \/ FeedPaginate \/ FeedRespond

\* ---------------------------------------------------------------------
\* Properties of the feed page
\* ---------------------------------------------------------------------
\* the numeric value a request parameter stands for
Requested(v) == JsToNumber(v)

\* position of a candidate in the order "score descending, equal scores in
\* fetch order"
RankOf(posts, x) ==
    1 + Cardinality({ y \in posts :
            \/ y.feed_score > x.feed_score
            \/ y.feed_score = x.feed_score /\ y.id < x.id })

\* the posts at positions offset .. offset+limit-1 of that order
DocumentedPage(posts, offset, limit) ==
    LET n == Cardinality(posts)
        last == Min(offset + limit, n)
    IN  IF last > offset
        THEN [k \in 1..(last - offset) |->
                CHOOSE x \in posts : RankOf(posts, x) = offset + k]
        ELSE <<>>

Candidates == { scoredPosts[i] : i \in DOMAIN scoredPosts }

\* C12: the feed holds exactly the posts at positions offset .. offset+limit-1
\* of the candidates ordered by score descending, equal scores in fetch
\* order, and so never more than limit posts.
C12_PageIsOffsetLimitSlice ==
    fPc = "done" =>
        /\ feedResp.feed = DocumentedPage(Candidates, Requested(query.offset),
                                          Requested(query.limit))
        /\ Len(feedResp.feed) <= Requested(query.limit)

\* the part of C12 that the code meets: whenever offset is 0 or absent, or
\* neither parameter is given, the page is the documented one
C12_PageWhenOffsetZero ==
    (fPc = "done" /\ Requested(query.offset) = 0) =>
        /\ feedResp.feed = DocumentedPage(Candidates, 0, Requested(query.limit))
        /\ Len(feedResp.feed) <= Requested(query.limit)

\* the scenario of C12: 80 candidates, limit=20, offset=0, top 20 returned
C12_ScenarioReached ==
    /\ fPc = "done"
    /\ Len(scoredPosts) = 80
    /\ Len(feedResp.feed) = 20
    /\ feedResp.feed = DocumentedPage(Candidates, 0, 20)

\* =====================================================================
\* Comments and comment priority (routes/comments.js, routes/celebrity.js,
\* routes/fanSubscriptions.js)
\* =====================================================================
\* One comment-side request runs at a time; it interleaves with the fan
\* ledger's LogInteraction.  The handlers of comments.js name the fan-status
\* columns user_id / celebrity_id / badge_id, those of fans.js fan_user_id /
\* celebrity_user_id / current_badge_id: both are taken to address the one
\* user_fan_status table.
MaxComments == 2
MaxCommentCalls == 3
MaxCommentFaults == 1
MaxFanLogs == 1

Commenters == {"f1"}
CommentClipIds == {"clip1", "clip2", "clip9"}

\* wisdom_clips as the comment handlers see it: clip1 is the celebrity's post,
\* clip2 the commenter's own, clip9 names no row
comment_clips == { [id |-> "clip1", user_id |-> "c1"], [id |-> "clip2", user_id |-> "f1"] }

\* subscription_plans: plan_type and priority_boost
subscription_plans ==
    { [plan_type |-> "free", priority_boost |-> NULL],
      [plan_type |-> "superfan", priority_boost |-> 50],
      [plan_type |-> "superfan_plus", priority_boost |-> 100] }

RequestedPlans == {"superfan", "superfan_plus", "gold"}

\* priority_multiplier per badge id; the second table leaves it unset on the
\* second badge
MultiplierTables ==
    { [i \in 1..Len(BadgeNames) |-> i],
      [i \in 1..Len(BadgeNames) |-> IF i = 2 THEN NULL ELSE i] }

NoScoreRow ==
    [present |-> FALSE, base_score |-> NULL, fan_tier_bonus |-> NULL,
     premium_bonus |-> NULL, final_score |-> NULL, subscription_level |-> "",
     fan_tier |-> "", priority_score |-> NULL]

\* user_fan_status row of (user, celebrity) with .single(): NoRow if none
FanStatusOf(user, celebrity) ==
    IF <<user, celebrity>> \in DOMAIN user_fan_status
    THEN user_fan_status[<<user, celebrity>>]
    ELSE NoRow

\* the embedded fan_badges row of a status row: its id, NULL when the status
\* row is missing or names no badge
BadgeOf(row) == IF row.present THEN row.current_badge_id ELSE NULL

\* mutant: the default multiplier also covers a fan without a badge
FanTierBonusFloor(badgeId) ==
    IF badgeId # NULL /\ badge_multiplier[badgeId] # NULL
    THEN badge_multiplier[badgeId] * 20
    ELSE 1 * 20

\* if (fanStatus?.fan_badges)
\*   fanTierBonus = (fanStatus.fan_badges.priority_multiplier || 1) * 20
FanTierBonus(badgeId) ==
    IF badgeId # NULL
    THEN (IF badge_multiplier[badgeId] # NULL THEN badge_multiplier[badgeId] ELSE 1) * 20
    ELSE 0

\* plan_type of the user's active subscription with .single(): "none" if no row
ActivePlanOf(user) ==
    IF user \in DOMAIN subscriptions THEN subscriptions[user] ELSE "none"

PlanRow(planType) == CHOOSE pl \in subscription_plans : pl.plan_type = planType

\* if (subscription?.subscription_plans)
\*   premiumBonus = subscription.subscription_plans.priority_boost || 0
PremiumBonus(planType) ==
    IF planType # "none" /\ PlanRow(planType).priority_boost # NULL
    THEN PlanRow(planType).priority_boost
    ELSE 0

baseScore == 10

IdleComment ==
    [pc |-> "idle", handler |-> "", user_id |-> "", clip_id |-> "",
     parent_comment_id |-> NULL, celebrityId |-> "", fanBadge |-> NULL,
     fan_tier_bonus |-> 0, plan |-> "none", premium_bonus |-> 0,
     comment_id |-> NULL, filter |-> "", rows |-> <<>>]

NoCommentResp ==
    [status |-> 0, handler |-> "none", priority_score |-> 0, comments |-> <<>>]

CommentIds == { comments[i].id : i \in DOMAIN comments }

CommentsAtRest ==
    /\ badge_multiplier = [i \in 1..Len(BadgeNames) |-> i]
    /\ subscriptions = [u \in Commenters |-> "none"]
    /\ comments = <<>>
    /\ comment_priority_scores = [i \in 1..MaxComments |-> NoScoreRow]
    /\ cProc = IdleComment
    /\ cResp = NoCommentResp
    /\ cCalls = 0
    /\ cFaults = 0

InitComments ==
    /\ badge_multiplier \in MultiplierTables
    /\ subscriptions = [u \in Commenters |-> "none"]
    /\ comments = <<>>
    /\ comment_priority_scores = [i \in 1..MaxComments |-> NoScoreRow]
    /\ cProc = IdleComment
    /\ cResp = NoCommentResp
    /\ cCalls = 0
    /\ cFaults = 0

\* res.json / res.status(..).json of the invocation; the invocation ends
CommentRespond(status, score, list) ==
    /\ cResp' = [status |-> status, handler |-> cProc.handler,
                 priority_score |-> score, comments |-> list]
    /\ cProc' = IdleComment

restComment == <<reactVars, scoreVars, moodVars, pageVars, sockVars, chatVars, poolVars>>

\* ---------------------------------------------------------------------
\* POST /create (comments.js)
\* ---------------------------------------------------------------------
\* the request arrives; a missing field answers 400 at once
StartCreateComment(user, clip, parent, hasContent) ==
    /\ cProc.pc = "idle"
    /\ cCalls < MaxCommentCalls
    /\ Len(comments) < MaxComments
    /\ cCalls' = cCalls + 1
    /\ IF ~hasContent
       THEN /\ cResp' = [status |-> 400, handler |-> "CreateComment",
                         priority_score |-> 0, comments |-> <<>>]
            /\ UNCHANGED cProc
       ELSE /\ cProc' = [IdleComment EXCEPT !.pc = "cc_post", !.handler = "CreateComment",
                                            !.user_id = user, !.clip_id = clip,
                                            !.parent_comment_id = parent]
            /\ UNCHANGED cResp
    /\ UNCHANGED <<badge_multiplier, subscriptions, comments, comment_priority_scores, cFaults>>
    /\ UNCHANGED <<fanVars, restComment>>

\* wisdom_clips lookup with .single(): no row is an error, which is thrown
CcReadPost ==
    /\ cProc.pc = "cc_post"
    /\ IF \E c \in comment_clips : c.id = cProc.clip_id
       THEN /\ cProc' = [cProc EXCEPT
                  !.pc = "cc_fan",
                  !.celebrityId = (CHOOSE c \in comment_clips : c.id = cProc.clip_id).user_id]
            /\ UNCHANGED cResp
       ELSE CommentRespond(500, 0, <<>>)
    /\ UNCHANGED <<badge_multiplier, subscriptions, comments, comment_priority_scores,
                   cCalls, cFaults>>
    /\ UNCHANGED <<fanVars, restComment>>

\* calculatePriorityScore, first lookup: the fan's status and badge
CcReadFan ==
    LET badge == BadgeOf(FanStatusOf(cProc.user_id, cProc.celebrityId))
    IN  /\ cProc.pc = "cc_fan"
        /\ cProc' = [cProc EXCEPT !.pc = "cc_sub", !.fanBadge = badge,
                                  !.fan_tier_bonus = FanTierBonus(badge)]
        /\ UNCHANGED <<badge_multiplier, subscriptions, comments, comment_priority_scores,
                       cResp, cCalls, cFaults>>
        /\ UNCHANGED <<fanVars, restComment>>

\* calculatePriorityScore, second lookup: the active subscription and its plan
CcReadSub ==
    LET plan == ActivePlanOf(cProc.user_id)
    IN  /\ cProc.pc = "cc_sub"
        /\ cProc' = [cProc EXCEPT !.pc = "cc_insert", !.plan = plan,
                                  !.premium_bonus = PremiumBonus(plan)]
        /\ UNCHANGED <<badge_multiplier, subscriptions, comments, comment_priority_scores,
                       cResp, cCalls, cFaults>>
        /\ UNCHANGED <<fanVars, restComment>>

\* insert of the comment row
CcInsertComment ==
    LET id == Len(comments) + 1
    IN  /\ cProc.pc = "cc_insert"
        /\ comments' = Append(comments,
              [id |-> id, user_id |-> cProc.user_id, clip_id |-> cProc.clip_id,
               parent_comment_id |-> cProc.parent_comment_id])
        /\ cProc' = [cProc EXCEPT !.pc = "cc_score", !.comment_id = id]
        /\ UNCHANGED <<badge_multiplier, subscriptions, comment_priority_scores,
                       cResp, cCalls, cFaults>>
        /\ UNCHANGED <<fanVars, restComment>>

\* mutant: the premium bonus is left out of the final score
ScoreRowNoPremium(proc) ==
    [NoScoreRow EXCEPT
        !.present = TRUE,
        !.base_score = baseScore,
        !.fan_tier_bonus = proc.fan_tier_bonus,
        !.premium_bonus = proc.premium_bonus,
        !.final_score = baseScore + proc.fan_tier_bonus]

\* the comment_priority_scores row CreateComment stores
ScoreRow(proc) ==
    [NoScoreRow EXCEPT
        !.present = TRUE,
        !.base_score = baseScore,
        !.fan_tier_bonus = proc.fan_tier_bonus,
        !.premium_bonus = proc.premium_bonus,
        !.final_score = baseScore + proc.fan_tier_bonus + proc.premium_bonus]

\* mutant: fan tracking also on the commenter's own post
AfterScoreInsertAlwaysTrack ==
    /\ cProc' = [cProc EXCEPT !.pc = "cc_track"]
    /\ UNCHANGED cResp

\* what follows the score insert: fan tracking on another user's post,
\* otherwise the answer
AfterScoreInsert ==
    IF cProc.celebrityId # cProc.user_id
    THEN /\ cProc' = [cProc EXCEPT !.pc = "cc_track"]
         /\ UNCHANGED cResp
    ELSE CommentRespond(200, ScoreRow(cProc).final_score, <<>>)

\* insert of the priority score row; the unique key on comment_id rejects a
\* second row, and the result of the insert is not read
CcInsertScore ==
    /\ cProc.pc = "cc_score"
    /\ comment_priority_scores' =
          [comment_priority_scores EXCEPT ![cProc.comment_id] =
              IF @.present THEN @ ELSE ScoreRow(cProc)]
    /\ AfterScoreInsert
    /\ UNCHANGED <<badge_multiplier, subscriptions, comments, cCalls, cFaults>>
    /\ UNCHANGED <<fanVars, restComment>>

\* rpc('track_fan_interaction', .. 'comment' ..): the stored procedure is not
\* part of the sources; it is taken to log one 'comment' interaction of the
\* pair atomically, as LogInteraction does statement by statement
track_fan_interaction(status, user, celebrity, now) ==
    IF <<user, celebrity>> \in DOMAIN status
    THEN [status EXCEPT ![<<user, celebrity>>] =
             RecomputeBadge(fan_badges, UpsertRow(@, "comment", now), now)]
    ELSE status

\* the fan tracking call, then the answer
CcTrack ==
    /\ cProc.pc = "cc_track"
    /\ clock' = clock + 1
    /\ user_fan_status' = track_fan_interaction(user_fan_status, cProc.user_id,
                                                cProc.celebrityId, clock + 1)
    /\ CommentRespond(200, ScoreRow(cProc).final_score, <<>>)
    /\ UNCHANGED <<badge_multiplier, subscriptions, comments, comment_priority_scores,
                   cCalls, cFaults>>
    /\ UNCHANGED <<fan_badges, fan_interactions, fanProc, fanResp, faults, calls,
                   liOk, liAborted, liPending>>
    /\ UNCHANGED restComment

\* a failed lookup of calculatePriorityScore: data is null, the bonus stays 0
CcLookupFails ==
    /\ cFaults < MaxCommentFaults
    /\ cFaults' = cFaults + 1
    /\ \/ /\ cProc.pc = "cc_fan"
          /\ cProc' = [cProc EXCEPT !.pc = "cc_sub"]
       \/ /\ cProc.pc = "cc_sub"
          /\ cProc' = [cProc EXCEPT !.pc = "cc_insert"]
    /\ UNCHANGED <<badge_multiplier, subscriptions, comments, comment_priority_scores,
                   cResp, cCalls>>
    /\ UNCHANGED <<fanVars, restComment>>

\* a failed write whose result is not read: score insert, fan tracking
CcWriteFails ==
    /\ cFaults < MaxCommentFaults
    /\ cFaults' = cFaults + 1
    /\ \/ /\ cProc.pc = "cc_score"
          /\ AfterScoreInsert
       \/ /\ cProc.pc = "cc_track"
          /\ CommentRespond(200, ScoreRow(cProc).final_score, <<>>)
    /\ UNCHANGED <<badge_multiplier, subscriptions, comments, comment_priority_scores, cCalls>>
    /\ UNCHANGED <<fanVars, restComment>>

\* a store call whose error the handler throws: post lookup, comment insert
CcThrow ==
    /\ cFaults < MaxCommentFaults
    /\ cFaults' = cFaults + 1
    /\ cProc.pc \in {"cc_post", "cc_insert"}
    /\ CommentRespond(500, 0, <<>>)
    /\ UNCHANGED <<badge_multiplier, subscriptions, comments, comment_priority_scores, cCalls>>
    /\ UNCHANGED <<fanVars, restComment>>

\* ---------------------------------------------------------------------
\* POST /subscribe (fanSubscriptions.js)
\* ---------------------------------------------------------------------
StartSubscribe(user, planType) ==
    /\ cProc.pc = "idle"
    /\ cCalls < MaxCommentCalls
    /\ cCalls' = cCalls + 1
    /\ cProc' = [IdleComment EXCEPT !.pc = "sb_plan", !.handler = "Subscribe",
                                    !.user_id = user, !.plan = planType]
    /\ UNCHANGED <<badge_multiplier, subscriptions, comments, comment_priority_scores,
                   cResp, cFaults>>
    /\ UNCHANGED <<fanVars, restComment>>

\* lookup of the plan: no row answers 404
SbReadPlan ==
    /\ cProc.pc = "sb_plan"
    /\ IF \E pl \in subscription_plans : pl.plan_type = cProc.plan
       THEN /\ cProc' = [cProc EXCEPT !.pc = "sb_upsert"]
            /\ UNCHANGED cResp
       ELSE CommentRespond(404, 0, <<>>)
    /\ UNCHANGED <<badge_multiplier, subscriptions, comments, comment_priority_scores,
                   cCalls, cFaults>>
    /\ UNCHANGED <<fanVars, restComment>>

\* INSERT INTO subscriptions .. ON CONFLICT (user_id) DO UPDATE: the user's one
\* row becomes an active subscription to the plan
SbUpsert ==
    /\ cProc.pc = "sb_upsert"
    /\ subscriptions' = [subscriptions EXCEPT ![cProc.user_id] = cProc.plan]
    /\ CommentRespond(201, 0, <<>>)
    /\ UNCHANGED <<badge_multiplier, comments, comment_priority_scores, cCalls, cFaults>>
    /\ UNCHANGED <<fanVars, restComment>>

\* ---------------------------------------------------------------------
\* POST /comment/calculate-priority (fanSubscriptions.js)
\* ---------------------------------------------------------------------
BadgeNameOf(badgeId) ==
    IF badgeId = NULL THEN "" ELSE (CHOOSE b \in BadgeRows(fan_badges) : b.id = badgeId).badge_name

\* badgeName?.toLowerCase().replace(' fan', '').replace('-', '_') || 'new'
\* on the five badge names and on a missing name
FanTierOf(badgeName) ==
    CASE badgeName = "New Fan" -> "new"
      [] badgeName = "Active Fan" -> "active"
      [] badgeName = "Loyal Fan" -> "loyal"
      [] badgeName = "Super Fan" -> "super"
      [] badgeName = "Die-Hard Fan" -> "die_hard"
      [] OTHER -> "new"

\* the SQL function calculate_comment_priority_score(level, tier, extra) is not
\* part of the sources: base score plus the tier's bonus plus the level's boost
calculate_comment_priority_score(level, tier, extra) ==
    LET ids == { b.id : b \in { r \in BadgeRows(fan_badges) : FanTierOf(r.badge_name) = tier } }
        plans == { pl \in subscription_plans : pl.plan_type = level }
    IN  baseScore
        + (IF ids = {} THEN 0 ELSE FanTierBonus(CHOOSE i \in ids : TRUE))
        + (IF plans = {} THEN 0 ELSE PremiumBonus(level))
        + extra

StartCalculatePriority(id, user, celebrity) ==
    /\ cProc.pc = "idle"
    /\ cCalls < MaxCommentCalls
    /\ cCalls' = cCalls + 1
    /\ cProc' = [IdleComment EXCEPT !.pc = "cp_sub", !.handler = "CalculatePriority",
                                    !.comment_id = id, !.user_id = user,
                                    !.celebrityId = celebrity]
    /\ UNCHANGED <<badge_multiplier, subscriptions, comments, comment_priority_scores,
                   cResp, cFaults>>
    /\ UNCHANGED <<fanVars, restComment>>

\* the active subscription's plan_type, 'free' when there is none
CpReadSub ==
    LET plan == ActivePlanOf(cProc.user_id)
    IN  /\ cProc.pc = "cp_sub"
        /\ cProc' = [cProc EXCEPT !.pc = "cp_fan",
                                  !.plan = IF plan = "none" THEN "free" ELSE plan]
        /\ UNCHANGED <<badge_multiplier, subscriptions, comments, comment_priority_scores,
                       cResp, cCalls, cFaults>>
        /\ UNCHANGED <<fanVars, restComment>>

\* the fan's badge for the celebrity
CpReadFan ==
    /\ cProc.pc = "cp_fan"
    /\ cProc' = [cProc EXCEPT !.pc = "cp_upsert",
                              !.fanBadge = BadgeOf(FanStatusOf(cProc.user_id, cProc.celebrityId))]
    /\ UNCHANGED <<badge_multiplier, subscriptions, comments, comment_priority_scores,
                   cResp, cCalls, cFaults>>
    /\ UNCHANGED <<fanVars, restComment>>

\* mutant: the conflict branch also overwrites final_score
PriorityUpsertAll(row, level, tier) ==
    IF ~row.present
    THEN [NoScoreRow EXCEPT
             !.present = TRUE, !.subscription_level = level, !.fan_tier = tier,
             !.priority_score = calculate_comment_priority_score(level, tier, 0)]
    ELSE [row EXCEPT
             !.priority_score = calculate_comment_priority_score(level, tier, 0),
             !.final_score = calculate_comment_priority_score(level, tier, 0)]

\* INSERT INTO comment_priority_scores (.., subscription_level, fan_tier,
\*   priority_score) .. ON CONFLICT (comment_id) DO UPDATE SET priority_score = ..
PriorityUpsert(row, level, tier) ==
    IF ~row.present
    THEN [NoScoreRow EXCEPT
             !.present = TRUE, !.subscription_level = level, !.fan_tier = tier,
             !.priority_score = calculate_comment_priority_score(level, tier, 0)]
    ELSE [row EXCEPT
             !.priority_score = calculate_comment_priority_score(level, tier, 0)]

CpUpsert ==
    LET tier == FanTierOf(BadgeNameOf(cProc.fanBadge))
        new == PriorityUpsert(comment_priority_scores[cProc.comment_id], cProc.plan, tier)
    IN  /\ cProc.pc = "cp_upsert"
        /\ comment_priority_scores' =
              [comment_priority_scores EXCEPT ![cProc.comment_id] = new]
        /\ CommentRespond(200, new.priority_score, <<>>)
        /\ UNCHANGED <<badge_multiplier, subscriptions, comments, cCalls, cFaults>>
        /\ UNCHANGED <<fanVars, restComment>>

\* a statement of a pool.query handler throws: catch block, 500 response
PoolThrow ==
    /\ cFaults < MaxCommentFaults
    /\ cFaults' = cFaults + 1
    /\ cProc.pc \in {"cp_sub", "cp_fan", "cp_upsert", "sb_plan", "sb_upsert", "gb_query"}
    /\ CommentRespond(500, 0, <<>>)
    /\ UNCHANGED <<badge_multiplier, subscriptions, comments, comment_priority_scores, cCalls>>
    /\ UNCHANGED <<fanVars, restComment>>

\* ---------------------------------------------------------------------
\* GET /post/:clipId/filtered (comments.js)
\* ---------------------------------------------------------------------
CommentFilters == {"all", "superfan_plus", "superfan", "die_hard", "premium", "high_aura"}

HighAura == 800
DefaultPriority == 10
DashboardLimit == 100

\* positions 1..n of the elements of rows ordered by Before, a strict total
\* order on them
OrderBy(rows, Before(_, _)) ==
    [k \in 1..Cardinality(rows) |->
        CHOOSE x \in rows : Cardinality({ y \in rows : Before(y, x) }) = k - 1]

StartFilterA(clip, filter) ==
    /\ cProc.pc = "idle"
    /\ cCalls < MaxCommentCalls
    /\ cCalls' = cCalls + 1
    /\ cProc' = [IdleComment EXCEPT !.pc = "ga_post", !.handler = "FilteredComments",
                                    !.clip_id = clip, !.filter = filter]
    /\ UNCHANGED <<badge_multiplier, subscriptions, comments, comment_priority_scores,
                   cResp, cFaults>>
    /\ UNCHANGED <<fanVars, restComment>>

\* the post owner: post?.user_id
GaReadPost ==
    LET found == { c \in comment_clips : c.id = cProc.clip_id }
    IN  /\ cProc.pc = "ga_post"
        /\ cProc' = [cProc EXCEPT
              !.pc = "ga_comments",
              !.celebrityId = IF found = {} THEN "" ELSE (CHOOSE c \in found : TRUE).user_id]
        /\ UNCHANGED <<badge_multiplier, subscriptions, comments, comment_priority_scores,
                       cResp, cCalls, cFaults>>
        /\ UNCHANGED <<fanVars, restComment>>

\* c.users?.aura_score of the embedded user row
AuraOf(user) == IF user \in DOMAIN users THEN users[user].aura_score ELSE NULL

\* the top-level comments of the post with users and final_score embedded, in
\* table order; priority_score is final_score || 10
TopLevelRows(clip) ==
    LET ids == { i \in DOMAIN comments :
                    comments[i].clip_id = clip /\ comments[i].parent_comment_id = NULL }
    IN  OrderBy({ [id |-> comments[i].id, user_id |-> comments[i].user_id,
                   aura_score |-> AuraOf(comments[i].user_id),
                   priority_score |->
                      IF comment_priority_scores[comments[i].id].final_score # NULL
                      THEN comment_priority_scores[comments[i].id].final_score
                      ELSE DefaultPriority] : i \in ids },
                LAMBDA x, y : x.id < y.id)

GaReadComments ==
    /\ cProc.pc = "ga_comments"
    /\ cProc' = [cProc EXCEPT !.pc = "ga_status", !.rows = TopLevelRows(cProc.clip_id)]
    /\ UNCHANGED <<badge_multiplier, subscriptions, comments, comment_priority_scores,
                   cResp, cCalls, cFaults>>
    /\ UNCHANGED <<fanVars, restComment>>

\* the filter of comments.js over the commenter's fan badge and subscription
\* as looked up now
PassesFilterA(row, filter, celebrity) ==
    LET fan_badge == BadgeNameOf(BadgeOf(FanStatusOf(row.user_id, celebrity)))
        is_premium == ActivePlanOf(row.user_id) # "none"
    IN  CASE filter = "die_hard" -> fan_badge = "Die-Hard Fan"
          [] filter = "superfan" -> fan_badge \in {"Die-Hard Fan", "Super Fan"}
          [] filter = "premium" -> is_premium
          [] filter = "high_aura" -> row.aura_score # NULL /\ row.aura_score >= HighAura
          [] OTHER -> TRUE

\* filteredComments.sort((a, b) => b.priority_score - a.priority_score), stable
SortByPriority(rows) ==
    LET idx == DOMAIN rows
        pos(i) == 1 + Cardinality({ j \in idx :
                        \/ rows[j].priority_score > rows[i].priority_score
                        \/ rows[j].priority_score = rows[i].priority_score /\ j < i })
    IN  [k \in 1..Len(rows) |-> rows[CHOOSE i \in idx : pos(i) = k]]

Answer(rows) == [k \in DOMAIN rows |-> [id |-> rows[k].id, priority_score |-> rows[k].priority_score]]

\* the per-comment lookups, the filter, the sort and the answer
GaAnswer ==
    /\ cProc.pc = "ga_status"
    /\ CommentRespond(200, 0,
          Answer(SortByPriority(SelectSeq(cProc.rows,
              LAMBDA r : PassesFilterA(r, cProc.filter, cProc.celebrityId)))))
    /\ UNCHANGED <<badge_multiplier, subscriptions, comments, comment_priority_scores,
                   cCalls, cFaults>>
    /\ UNCHANGED <<fanVars, restComment>>

\* the comments query fails: its error is thrown
GaThrow ==
    /\ cFaults < MaxCommentFaults
    /\ cFaults' = cFaults + 1
    /\ cProc.pc = "ga_comments"
    /\ CommentRespond(500, 0, <<>>)
    /\ UNCHANGED <<badge_multiplier, subscriptions, comments, comment_priority_scores, cCalls>>
    /\ UNCHANGED <<fanVars, restComment>>

\* ---------------------------------------------------------------------
\* GET /:userId/comments/filtered (celebrity.js)
\* ---------------------------------------------------------------------
StartFilterB(celebrity, clip, filter) ==
    /\ cProc.pc = "idle"
    /\ cCalls < MaxCommentCalls
    /\ cCalls' = cCalls + 1
    /\ cProc' = [IdleComment EXCEPT !.pc = "gb_query", !.handler = "DashboardComments",
                                    !.celebrityId = celebrity, !.clip_id = clip,
                                    !.filter = filter]
    /\ UNCHANGED <<badge_multiplier, subscriptions, comments, comment_priority_scores,
                   cResp, cFaults>>
    /\ UNCHANGED <<fanVars, restComment>>

\* the switch on filter: a condition on the persisted cps columns
PassesFilterB(cps, filter) ==
    CASE filter = "superfan_plus" -> cps.subscription_level = "superfan_plus"
      [] filter = "superfan" -> cps.subscription_level \in {"superfan", "superfan_plus"}
      [] filter = "die_hard" -> cps.fan_tier = "die_hard"
      [] filter = "premium" -> cps.subscription_level \in {"superfan", "superfan_plus"}
      [] OTHER -> TRUE

\* ORDER BY cps.priority_score DESC NULLS LAST, c.created_at DESC
DashboardBefore(x, y) ==
    \/ x.priority_score # NULL /\ y.priority_score = NULL
    \/ x.priority_score > y.priority_score /\ y.priority_score # NULL
    \/ x.priority_score = y.priority_score /\ x.id > y.id

\* SELECT .. FROM comments c LEFT JOIN comment_priority_scores cps ..
\*   WHERE c.clip_id = $2 <filter> ORDER BY .. LIMIT 100
DashboardRows(clip, filter) ==
    LET ids == { i \in DOMAIN comments :
                    /\ comments[i].clip_id = clip
                    /\ PassesFilterB(comment_priority_scores[comments[i].id], filter) }
        all == OrderBy({ [id |-> comments[i].id,
                          priority_score |-> comment_priority_scores[comments[i].id].priority_score]
                          : i \in ids }, DashboardBefore)
    IN  SubSeq(all, 1, Min(Len(all), DashboardLimit))

GbAnswer ==
    /\ cProc.pc = "gb_query"
    /\ CommentRespond(200, 0, DashboardRows(cProc.clip_id, cProc.filter))
    /\ UNCHANGED <<badge_multiplier, subscriptions, comments, comment_priority_scores,
                   cCalls, cFaults>>
    /\ UNCHANGED <<fanVars, restComment>>

\* the comment-side requests, and the fan ledger's LogInteraction of the
\* commenter run by one handler instance
NextComments ==
    \/ \E user \in Commenters, clip \in CommentClipIds,
          parent \in {NULL} \cup CommentIds, hasContent \in BOOLEAN :
          StartCreateComment(user, clip, parent, hasContent)
    \/ CcReadPost
    \/ CcReadFan
    \/ CcReadSub
    \/ CcInsertComment
    \/ CcInsertScore
    \/ CcTrack
    \/ CcLookupFails
    \/ CcWriteFails
    \/ CcThrow
    \/ \E user \in Commenters, planType \in RequestedPlans : StartSubscribe(user, planType)
    \/ SbReadPlan
    \/ SbUpsert
    \/ \E id \in CommentIds, user \in Commenters, celebrity \in Celebrities :
          StartCalculatePriority(id, user, celebrity)
    \/ CpReadSub
    \/ CpReadFan
    \/ CpUpsert
    \/ PoolThrow
    \/ \E clip \in CommentClipIds, filter \in CommentFilters : StartFilterA(clip, filter)
    \/ GaReadPost
    \/ GaReadComments
    \/ GaAnswer
    \/ GaThrow
    \/ \E celebrity \in Celebrities, clip \in CommentClipIds, filter \in CommentFilters :
          StartFilterB(celebrity, clip, filter)
    \/ GbAnswer
    \/ /\ calls < MaxFanLogs
       /\ \E pair \in Commenters \X Celebrities : StartLogInteraction(1, pair, "reaction")
    \/ LiInsertLog(1)
    \/ LiUpsert(1)
    \/ LiUpdateBadge(1)

\* the users the comment handlers embed: the commenter and the celebrity
CommentUsers == Commenters \cup Celebrities

\* the reaction tables at rest, with the rows of the users of the comment handlers
InitCommentUsers ==
    /\ reactions = {}
    /\ nextReactionId = 1
    /\ users = [u \in CommentUsers |-> [wisdom_score |-> 0, aura_score |-> 0]]
    /\ behavioral_patterns = [u \in CommentUsers |-> NoPatterns]
    /\ rProc = [p \in Procs |-> IdleReact]
    /\ rResp = NoReactResp
    /\ rCalls = 0
    /\ rFaults = 0
    /\ rHist = [k \in ReactionKeys |-> <<>>]
    /\ rOverlap = [k \in ReactionKeys |-> FALSE]


\* ---------------------------------------------------------------------
\* Properties of the comment priority score
\* ---------------------------------------------------------------------
\* the lookup of CreateComment at pc answers in this step
LookupAnswers(pc, next) ==
    /\ cProc.pc = pc
    /\ cProc'.pc = next
    /\ cFaults' = cFaults

\* CreateComment stores the score row of its comment in this step
ScoreStored ==
    /\ cProc.pc = "cc_score"
    /\ ~comment_priority_scores[cProc.comment_id].present
    /\ comment_priority_scores'[cProc.comment_id].present

\* CreateComment answers 200 in this step
CreateAnswers ==
    /\ cProc.handler = "CreateComment"
    /\ cProc.pc \in {"cc_score", "cc_track"}
    /\ cProc'.pc = "idle"

\* priority_boost of the plan, 0 when the user has no active subscription
DocumentedPremiumBonus(plan) ==
    IF plan = "none" THEN 0
    ELSE (CHOOSE pl \in subscription_plans : pl.plan_type = plan).priority_boost

\* C13: a comment's priority score is 10 + fanTierBonus + premiumBonus, where
\* fanTierBonus is 20 times the priority multiplier of the commenter's tier for
\* the post owner when the fan status lookup answers, premiumBonus is the
\* priority boost of the commenter's active plan, or 0 without an active
\* subscription, when the subscription lookup answers; the stored components
\* sum to the stored final_score, which is the score returned.
C13_PriorityScoreSum ==
    [][ /\ LookupAnswers("cc_fan", "cc_sub") =>
              LET b == BadgeOf(FanStatusOf(cProc.user_id, cProc.celebrityId))
              IN  (b # NULL /\ badge_multiplier[b] # NULL) =>
                      cProc'.fan_tier_bonus = 20 * badge_multiplier[b]
        /\ LookupAnswers("cc_sub", "cc_insert") =>
              cProc'.premium_bonus = DocumentedPremiumBonus(ActivePlanOf(cProc.user_id))
        /\ ScoreStored =>
              LET row == comment_priority_scores'[cProc.comment_id]
              IN  /\ row.final_score = 10 + cProc.fan_tier_bonus + cProc.premium_bonus
                  /\ row.fan_tier_bonus = cProc.fan_tier_bonus
                  /\ row.premium_bonus = cProc.premium_bonus
                  /\ row.base_score + row.fan_tier_bonus + row.premium_bonus = row.final_score
        /\ CreateAnswers =>
              /\ cResp'.status = 200
              /\ cResp'.priority_score = 10 + cProc.fan_tier_bonus + cProc.premium_bonus
      ]_vars

\* C13 witness: a comment of a fan with a tier and an active plan was answered
\* with the stored sum of a positive tier bonus and a positive premium bonus
C13_Witness ==
    /\ cResp.handler = "CreateComment"
    /\ cResp.status = 200
    /\ \E i \in CommentIds :
          /\ comment_priority_scores[i].present
          /\ comment_priority_scores[i].fan_tier_bonus > 0
          /\ comment_priority_scores[i].premium_bonus > 0
          /\ comment_priority_scores[i].final_score = cResp.priority_score

\* C14 as stated: for a fan with no tier for the post owner fanTierBonus is 20,
\* and the comment of such a fan without an active subscription scores 30.
C14_NoTierBonusIsTwenty ==
    [][ /\ (/\ LookupAnswers("cc_fan", "cc_sub")
            /\ BadgeOf(FanStatusOf(cProc.user_id, cProc.celebrityId)) = NULL)
              => cProc'.fan_tier_bonus = 20
        /\ (ScoreStored /\ cProc.fanBadge = NULL /\ cProc.plan = "none")
              => comment_priority_scores'[cProc.comment_id].final_score = 30
      ]_vars

\* C14 amended: for a fan with no tier for the post owner fanTierBonus is 0 and
\* the comment of such a fan without an active subscription scores 10; the
\* multiplier defaults to 1, so that fanTierBonus is 20 and the score without a
\* subscription 30, for a fan whose tier carries no multiplier.
C14_NoTierBonusIsZero ==
    [][ /\ LookupAnswers("cc_fan", "cc_sub") =>
              LET b == BadgeOf(FanStatusOf(cProc.user_id, cProc.celebrityId))
              IN  /\ b = NULL => cProc'.fan_tier_bonus = 0
                  /\ (b # NULL /\ badge_multiplier[b] = NULL) => cProc'.fan_tier_bonus = 20
        /\ (ScoreStored /\ cProc.plan = "none") =>
              LET b == cProc.fanBadge
                  row == comment_priority_scores'[cProc.comment_id]
              IN  /\ b = NULL => row.final_score = 10
                  /\ (b # NULL /\ badge_multiplier[b] = NULL) => row.final_score = 30
      ]_vars

\* C14 witness: the score of a comment by a fan with no tier and no active
\* subscription has been stored
C14_Witness ==
    /\ cProc.pc = "cc_track"
    /\ cProc.fanBadge = NULL
    /\ cProc.plan = "none"
    /\ ~FanStatusOf(cProc.user_id, cProc.celebrityId).present
    /\ comment_priority_scores[cProc.comment_id].final_score = 10

TrackStep == cProc.pc = "cc_track" /\ cProc'.pc = "idle"

\* C28: CreateComment looks the commenter's tier up and stores the score
\* before it tracks the comment's own fan interaction, and tracking leaves the
\* stored score alone: the stored bonus is that of the tier looked up, so the
\* comment that takes the fan across a threshold keeps the bonus of the tier
\* held before it; a comment on the commenter's own post is answered without
\* tracking an interaction.
C28_ScoreFromTierBeforeTracking ==
    [][ /\ (cProc.handler = "CreateComment" /\ cProc' # cProc /\ ~TrackStep) =>
              /\ user_fan_status' = user_fan_status
              /\ fan_interactions' = fan_interactions
        /\ TrackStep =>
              LET row == comment_priority_scores[cProc.comment_id]
                  before == BadgeOf(FanStatusOf(cProc.user_id, cProc.celebrityId))
                  after == user_fan_status'[<<cProc.user_id, cProc.celebrityId>>].current_badge_id
              IN  /\ cProc.celebrityId # cProc.user_id
                  /\ comment_priority_scores' = comment_priority_scores
                  /\ row.present => row.fan_tier_bonus = FanTierBonus(cProc.fanBadge)
                  /\ (calls = 0 /\ cFaults' = 0 /\ after # before) =>
                        row.fan_tier_bonus = FanTierBonus(before)
        /\ (cProc.pc = "cc_score" /\ cProc.celebrityId = cProc.user_id /\ cProc' # cProc) =>
              /\ cProc'.pc = "idle"
              /\ cResp'.status = 200
              /\ user_fan_status' = user_fan_status
      ]_vars

\* C28 witness: the second comment of a fan took the fan from one tier to the
\* next and is stored with the bonus of the tier held before it
C28_Witness ==
    /\ calls = 0
    /\ cFaults = 0
    /\ cProc.pc = "idle"
    /\ cResp.handler = "CreateComment"
    /\ cResp.status = 200
    /\ Len(comments) = 2
    /\ comment_priority_scores[2].fan_tier_bonus > 0
    /\ comment_priority_scores[2].fan_tier_bonus
          < FanTierBonus(BadgeOf(FanStatusOf("f1", "c1")))

\* C28 witness, own post: a comment on the commenter's own post was answered
\* and no fan status exists
C28_WitnessOwnPost ==
    /\ cResp.handler = "CreateComment"
    /\ cResp.status = 200
    /\ \E i \in CommentIds : comments[i].clip_id = "clip2"
    /\ \A pr \in DOMAIN user_fan_status : ~user_fan_status[pr].present

\* a filter handler answers 200 in this step
FilterAnswers(pc) ==
    /\ cProc.pc = pc
    /\ cProc'.pc = "idle"
    /\ cFaults' = cFaults

\* the filter's predicate over the fields persisted with the priority score
PersistedPredicate(cps, filter) ==
    CASE filter = "superfan_plus" -> cps.subscription_level = "superfan_plus"
      [] filter \in {"superfan", "premium"} ->
            cps.subscription_level \in {"superfan", "superfan_plus"}
      [] filter = "die_hard" -> cps.fan_tier = "die_hard"
      [] OTHER -> TRUE

\* the answer holds exactly the comments of the post that satisfy the
\* persisted predicate, by priority score descending
DocumentedAnswer(list, clip, filter) ==
    /\ { list[k].id : k \in DOMAIN list } =
          { i \in CommentIds :
              /\ comments[i].clip_id = clip
              /\ PersistedPredicate(comment_priority_scores[i], filter) }
    /\ \A j, k \in DOMAIN list : j # k => list[j].id # list[k].id
    /\ \A j, k \in DOMAIN list : j < k => list[j].priority_score >= list[k].priority_score

\* C20: a filtered-comments request returns exactly the comments of the post
\* that satisfy the filter's predicate over the persisted subscription level
\* and fan tier, ordered by priority score descending; a filter other than
\* superfan_plus, superfan, die_hard and premium returns all comments.
C20_FilterOverPersistedFields ==
    [][ \A pc \in {"ga_status", "gb_query"} :
           FilterAnswers(pc) => DocumentedAnswer(cResp'.comments, cProc.clip_id, cProc.filter)
      ]_vars

\* C20, the dashboard handler alone: its answer is the documented one
C20_DashboardFilterOverPersistedFields ==
    [][ FilterAnswers("gb_query") =>
           DocumentedAnswer(cResp'.comments, cProc.clip_id, cProc.filter)
      ]_vars

\* C20 scenario: the post's filtered comments were answered while a comment of
\* the post has a stored score
C20_ScenarioReached ==
    /\ cResp.handler = "FilteredComments"
    /\ cResp.status = 200
    /\ \E i \in CommentIds : comment_priority_scores[i].present

\* ---------------------------------------------------------------------
\* Presence registry (socket/chatSocket.js)
\* ---------------------------------------------------------------------
MaxSocketEvents == 4

SocketIds == {"s1", "s2", "s3"}
SocketUsers == {"u1", "u2"}

\* JS Map: a function from its keys
MapSet(m, k, v) == [x \in (DOMAIN m) \cup {k} |-> IF x = k THEN v ELSE m[x]]
MapDelete(m, k) == [x \in (DOMAIN m) \ {k} |-> m[x]]
MapHas(m, k) == k \in DOMAIN m
EmptyMap == [x \in {} |-> ""]

InitSockets ==
    /\ activeUsers = EmptyMap
    /\ userSockets = EmptyMap
    /\ sockets = [s \in SocketIds |-> "new"]
    /\ sockEvents = 0

SocketsAtRest == InitSockets

\* io.on('connection'): a client's socket is established
Connection(s) ==
    /\ sockets[s] = "new"
    /\ sockets' = [sockets EXCEPT ![s] = "connected"]
    /\ UNCHANGED <<activeUsers, userSockets, sockEvents>>
    /\ UNCHANGED restSock

\* socket.on('user:connect', userId)
UserConnect(s, userId) ==
    /\ sockets[s] = "connected"
    /\ sockEvents < MaxSocketEvents
    /\ sockEvents' = sockEvents + 1
    /\ activeUsers' = MapSet(activeUsers, userId, s)
    /\ userSockets' = MapSet(userSockets, s, userId)
    /\ UNCHANGED sockets
    /\ UNCHANGED restSock

\* socket.on('disconnect')
Disconnect(s) ==
    /\ sockets[s] = "connected"
    /\ sockets' = [sockets EXCEPT ![s] = "closed"]
    /\ IF MapHas(userSockets, s)
       THEN /\ activeUsers' = MapDelete(activeUsers, userSockets[s])
            /\ userSockets' = MapDelete(userSockets, s)
       ELSE UNCHANGED <<activeUsers, userSockets>>
    /\ UNCHANGED sockEvents
    /\ UNCHANGED restSock

NextSockets ==
    \/ \E s \in SocketIds : Connection(s)
    \/ \E s \in SocketIds, u \in SocketUsers : UserConnect(s, u)
    \/ \E s \in SocketIds : Disconnect(s)

\* the still-connected sockets registered to a user in userSockets
RegisteredSockets(u) ==
    { s \in DOMAIN userSockets : sockets[s] = "connected" /\ userSockets[s] = u }

\* C30: a user id is a key of activeUsers iff at least one still-connected
\* socket is registered to that user in userSockets, and activeUsers maps the
\* user to one of those sockets.
C30_ActiveIffSocketRegistered ==
    \A u \in SocketUsers :
        /\ MapHas(activeUsers, u) <=> RegisteredSockets(u) # {}
        /\ MapHas(activeUsers, u) => activeUsers[u] \in RegisteredSockets(u)

\* C30 scenario: a user registered from two sockets, one of them has closed
\* and the other is still connected and registered
C30_TwoSocketsOneClosed ==
    \E u \in SocketUsers, s \in SocketIds, t \in SocketIds :
        /\ s # t
        /\ sockets[s] = "closed"
        /\ t \in RegisteredSockets(u)
        /\ ~MapHas(activeUsers, u)

\* ---------------------------------------------------------------------
\* Celebrity chat rooms (routes/chat.js)
\* ---------------------------------------------------------------------
MaxChatCalls == 3
MaxChatFaults == 1

ChatCelebrity == "c1"
ChatFans == {"f1", "f2"}
NoFanRow == "none"

\* tier names of the rows of celebrity_fans
FanTierNames == {"new", "loyal", "die_hard"}
\* fanTier of a create request's body: any string
RequestedTiers == {"", "new", "loyal", "vip"}
\* conversationId of a join request's body: 0 stands for a missing id
RequestedConversations == 0..(MaxChatCalls + 1)

Undefined == [defined |-> FALSE, n |-> 0]
Defined(k) == [defined |-> TRUE, n |-> k]

\* const tierLevels = { new: 1, active: 2, loyal: 3, super_fan: 4, die_hard: 5 }
TierOrder == <<"new", "active", "loyal", "super_fan", "die_hard">>

\* tierLevels[name]: undefined for a name that is not a key
tierLevels(name) ==
    IF \E k \in DOMAIN TierOrder : TierOrder[k] = name
    THEN Defined(CHOOSE k \in DOMAIN TierOrder : TierOrder[k] = name)
    ELSE Undefined

\* a < b of JS on numbers and undefined: false when either side is undefined
JsLessThan(a, b) == a.defined /\ b.defined /\ a.n < b.n

IdleChat == [handler |-> "none", pc |-> "idle", userId |-> "", conversationId |-> 0,
             fanTier |-> "", tier |-> "", minTier |-> ""]
NoChatResp == [handler |-> "none", status |-> 0, error |-> ""]

ChatTablesEmpty ==
    /\ conversations = {}
    /\ celebrity_fan_groups = {}
    /\ conversation_participants = <<>>
    /\ chProc = IdleChat
    /\ chResp = NoChatResp
    /\ chCalls = 0
    /\ chFaults = 0

ChatAtRest ==
    /\ ChatTablesEmpty
    /\ celebrity_fans = [f \in ChatFans |-> NoFanRow]

\* celebrity_fans has no writer among the handlers: its rows are given
InitChat ==
    /\ ChatTablesEmpty
    /\ celebrity_fans \in [ChatFans -> FanTierNames \cup {NoFanRow}]

ChatRespond(handler, status, error) ==
    /\ chResp' = [handler |-> handler, status |-> status, error |-> error]
    /\ chProc' = IdleChat

ChatFault ==
    /\ chFaults < MaxChatFaults
    /\ chFaults' = chFaults + 1

\* POST /celebrity/create: validation
StartCreateCelebrityChat(fanTier) ==
    /\ chProc.pc = "idle"
    /\ chCalls < MaxChatCalls
    /\ chCalls' = chCalls + 1
    /\ IF fanTier = ""
       THEN ChatRespond("CreateCelebrityChat", 400, "Celebrity ID and fan tier are required")
       ELSE /\ chProc' = [IdleChat EXCEPT !.handler = "CreateCelebrityChat",
                                          !.pc = "cc_conversation", !.fanTier = fanTier]
            /\ UNCHANGED chResp
    /\ UNCHANGED <<conversations, celebrity_fan_groups, celebrity_fans,
                   conversation_participants, chFaults>>
    /\ UNCHANGED restChat

\* insert into conversations; if (convError) throw convError
CreateInsertConversation ==
    /\ chProc.pc = "cc_conversation"
    /\ \/ /\ conversations' = conversations \cup
                 {[id |-> Cardinality(conversations) + 1, celebrity_id |-> ChatCelebrity]}
          /\ chProc' = [chProc EXCEPT !.pc = "cc_group",
                                      !.conversationId = Cardinality(conversations) + 1]
          /\ UNCHANGED <<chResp, chFaults>>
       \/ /\ ChatFault
          /\ ChatRespond("CreateCelebrityChat", 500, StoreErrorMessage)
          /\ UNCHANGED conversations
    /\ UNCHANGED <<celebrity_fan_groups, celebrity_fans, conversation_participants, chCalls>>
    /\ UNCHANGED restChat

\* insert into celebrity_fan_groups with min_tier_required: fanTier;
\* if (groupError) throw groupError
CreateInsertGroup ==
    /\ chProc.pc = "cc_group"
    /\ \/ /\ celebrity_fan_groups' = celebrity_fan_groups \cup
                 {[conversation_id |-> chProc.conversationId,
                   min_tier_required |-> chProc.fanTier]}
          /\ chProc' = [chProc EXCEPT !.pc = "cc_admin"]
          /\ UNCHANGED <<chResp, chFaults>>
       \/ /\ ChatFault
          /\ ChatRespond("CreateCelebrityChat", 500, StoreErrorMessage)
          /\ UNCHANGED celebrity_fan_groups
    /\ UNCHANGED <<conversations, celebrity_fans, conversation_participants, chCalls>>
    /\ UNCHANGED restChat

\* insert the celebrity as admin (the result is not read), then res.json
CreateInsertAdmin ==
    /\ chProc.pc = "cc_admin"
    /\ \/ /\ conversation_participants' = Append(conversation_participants,
                 [conversation_id |-> chProc.conversationId,
                  user_id |-> ChatCelebrity, role |-> "admin"])
          /\ UNCHANGED chFaults
       \/ /\ ChatFault
          /\ UNCHANGED conversation_participants
    /\ ChatRespond("CreateCelebrityChat", 200, "")
    /\ UNCHANGED <<conversations, celebrity_fan_groups, celebrity_fans, chCalls>>
    /\ UNCHANGED restChat

\* POST /celebrity/join: validation
StartJoinCelebrityChat(userId, conversationId) ==
    /\ chProc.pc = "idle"
    /\ chCalls < MaxChatCalls
    /\ chCalls' = chCalls + 1
    /\ IF userId = "" \/ conversationId = 0
       THEN ChatRespond("JoinCelebrityChat", 400, "User ID and conversation ID are required")
       ELSE /\ chProc' = [IdleChat EXCEPT !.handler = "JoinCelebrityChat",
                                          !.pc = "jc_conversation", !.userId = userId,
                                          !.conversationId = conversationId]
            /\ UNCHANGED chResp
    /\ UNCHANGED <<conversations, celebrity_fan_groups, celebrity_fans,
                   conversation_participants, chFaults>>
    /\ UNCHANGED restChat

\* conversations lookup .single(); 404 when there is no data
JcReadConversation ==
    /\ chProc.pc = "jc_conversation"
    /\ \/ /\ \E c \in conversations : c.id = chProc.conversationId
          /\ chProc' = [chProc EXCEPT !.pc = "jc_fan"]
          /\ UNCHANGED <<chResp, chFaults>>
       \/ /\ \A c \in conversations : c.id # chProc.conversationId
          /\ ChatRespond("JoinCelebrityChat", 404, "Conversation not found")
          /\ UNCHANGED chFaults
       \/ /\ ChatFault
          /\ ChatRespond("JoinCelebrityChat", 404, "Conversation not found")
    /\ UNCHANGED <<conversations, celebrity_fan_groups, celebrity_fans,
                   conversation_participants, chCalls>>
    /\ UNCHANGED restChat

\* celebrity_fans lookup .single(); 403 when there is no data
JcReadFan ==
    /\ chProc.pc = "jc_fan"
    /\ \/ /\ celebrity_fans[chProc.userId] # NoFanRow
          /\ chProc' = [chProc EXCEPT !.pc = "jc_group",
                                      !.tier = celebrity_fans[chProc.userId]]
          /\ UNCHANGED <<chResp, chFaults>>
       \/ /\ celebrity_fans[chProc.userId] = NoFanRow
          /\ ChatRespond("JoinCelebrityChat", 403, "You must be a fan to join this chat")
          /\ UNCHANGED chFaults
       \/ /\ ChatFault
          /\ ChatRespond("JoinCelebrityChat", 403, "You must be a fan to join this chat")
    /\ UNCHANGED <<conversations, celebrity_fan_groups, celebrity_fans,
                   conversation_participants, chCalls>>
    /\ UNCHANGED restChat

\* the tier comparison after the celebrity_fan_groups lookup
JcCompare(minTier) ==
    IF JsLessThan(tierLevels(chProc.tier), tierLevels(minTier))
    THEN ChatRespond("JoinCelebrityChat", 403, "You need to be at least this tier")
    ELSE /\ chProc' = [chProc EXCEPT !.pc = "jc_insert", !.minTier = minTier]
         /\ UNCHANGED chResp

\* celebrity_fan_groups lookup .single(), its error unread: without data the
\* read of fanGroup.min_tier_required throws a TypeError
TypeErrorMessage == "Cannot read properties of null (reading 'min_tier_required')"

JcReadGroup ==
    /\ chProc.pc = "jc_group"
    /\ \/ /\ \E g \in celebrity_fan_groups :
                /\ g.conversation_id = chProc.conversationId
                /\ JcCompare(g.min_tier_required)
          /\ UNCHANGED chFaults
       \/ /\ \A g \in celebrity_fan_groups : g.conversation_id # chProc.conversationId
          /\ ChatRespond("JoinCelebrityChat", 500, TypeErrorMessage)
          /\ UNCHANGED chFaults
       \/ /\ ChatFault
          /\ ChatRespond("JoinCelebrityChat", 500, TypeErrorMessage)
    /\ UNCHANGED <<conversations, celebrity_fan_groups, celebrity_fans,
                   conversation_participants, chCalls>>
    /\ UNCHANGED restChat

\* insert into conversation_participants with role 'fan'; if (error) throw error
JcInsertParticipant ==
    /\ chProc.pc = "jc_insert"
    /\ \/ /\ conversation_participants' = Append(conversation_participants,
                 [conversation_id |-> chProc.conversationId,
                  user_id |-> chProc.userId, role |-> "fan"])
          /\ ChatRespond("JoinCelebrityChat", 200, "")
          /\ UNCHANGED chFaults
       \/ /\ ChatFault
          /\ ChatRespond("JoinCelebrityChat", 500, StoreErrorMessage)
          /\ UNCHANGED conversation_participants
    /\ UNCHANGED <<conversations, celebrity_fan_groups, celebrity_fans, chCalls>>
    /\ UNCHANGED restChat

NextChat ==
    \/ \E t \in RequestedTiers : StartCreateCelebrityChat(t)
    \/ CreateInsertConversation
    \/ CreateInsertGroup
    \/ CreateInsertAdmin
    \/ \E u \in ChatFans \cup {""}, c \in RequestedConversations : StartJoinCelebrityChat(u, c)
    \/ JcReadConversation
    \/ JcReadFan
    \/ JcReadGroup
    \/ JcInsertParticipant

\* ---- properties ----
\* rank of a tier name in the order new < active < loyal < super_fan < die_hard;
\* 0 for a name outside the list
ChatTierRank(name) ==
    IF \E k \in DOMAIN TierOrder : TierOrder[k] = name
    THEN CHOOSE k \in DOMAIN TierOrder : TierOrder[k] = name
    ELSE 0

\* the user has a fan record and a tier of the list ranked at least as high
\* as the group's minimum tier, itself of the list
MayJoin(userId, conversationId) ==
    /\ celebrity_fans[userId] # NoFanRow
    /\ \E g \in celebrity_fan_groups :
          /\ g.conversation_id = conversationId
          /\ ChatTierRank(celebrity_fans[userId]) >= 1
          /\ ChatTierRank(g.min_tier_required) >= 1
          /\ ChatTierRank(celebrity_fans[userId]) >= ChatTierRank(g.min_tier_required)

\* a join request for an existing conversation with a group row is answered
\* with every lookup of the request having answered
JoinDecided ==
    /\ chProc.handler = "JoinCelebrityChat"
    /\ chProc'.pc = "idle"
    /\ chFaults' = chFaults
    /\ \E c \in conversations : c.id = chProc.conversationId
    /\ \E g \in celebrity_fan_groups : g.conversation_id = chProc.conversationId

\* C24: JoinCelebrityChat adds the user as a participant only if the user has
\* a fan record and the rank of the fan's tier is at least the rank of the
\* group's minimum tier in the order new < active < loyal < super_fan <
\* die_hard; in every other case it responds 403 and adds no participant.
C24_JoinOnlyAtRequiredTier ==
    [][ /\ (chProc.handler = "JoinCelebrityChat"
              /\ conversation_participants' # conversation_participants)
           => MayJoin(chProc.userId, chProc.conversationId)
        /\ (JoinDecided /\ ~MayJoin(chProc.userId, chProc.conversationId))
           => /\ chResp'.status = 403
              /\ conversation_participants' = conversation_participants
      ]_vars

\* C24 scenario: a fan is a participant of a room whose minimum tier is not
\* a name of the order
C24_JoinedRoomOfUnknownTier ==
    \E i \in DOMAIN conversation_participants :
        /\ conversation_participants[i].role = "fan"
        /\ \E g \in celebrity_fan_groups :
              /\ g.conversation_id = conversation_participants[i].conversation_id
              /\ ChatTierRank(g.min_tier_required) = 0

\* ---------------------------------------------------------------------
\* Feed candidate pool (unnamed/part_000)
\* ---------------------------------------------------------------------
MaxClips == 200
MaxFeedFaults == 1

FeedUser == "u1"
ClipAuthors == <<"u1", "a1", "a2", "a3">>
ClipAuthorSet == { ClipAuthors[k] : k \in DOMAIN ClipAuthors }
FeedContentTypes == <<"entertainment", "educational", "other">>

\* the follow graphs of the requesting user: following_id of the rows with
\* follower_id = userId
FollowGraphs == { {}, {"u1"}, {"a1"}, {"a1", "a2"}, {"u1", "a1", "a2"} }

\* wisdom_clips: posts of four authors, every seventh private, with distinct
\* creation times that do not follow the ids
feed_clips ==
    [i \in 1..MaxClips |->
        [id |-> i,
         user_id |-> ClipAuthors[(i % 4) + 1],
         visibility |-> IF i % 7 = 0 THEN "private" ELSE "public",
         created_at |-> (i * 7) % (MaxClips + 1),
         age_minutes |-> (MaxClips + 1 - ((i * 7) % (MaxClips + 1))) * 10,
         content_type |-> FeedContentTypes[(i % 3) + 1],
         hashtags |-> <<>>,
         is_crisis |-> (i % 13 = 0),
         needs_fact_check |-> (i % 11 = 0)]]

\* users joined to the posts as users:user_id
feed_users ==
    [a \in ClipAuthorSet |->
        [aura_score |-> IF a = "a1" THEN 900 ELSE 100,
         wisdom_score |-> IF a = "a3" THEN 900 ELSE 100]]

\* .order('created_at', { ascending: false }) over the whole table
ClipsNewestFirst ==
    [k \in 1..MaxClips |->
        CHOOSE i \in 1..MaxClips :
            Cardinality({ j \in 1..MaxClips :
                feed_clips[j].created_at > feed_clips[i].created_at }) = k - 1]

\* the query of the same handler without .eq('visibility', 'public')
RecentBy(authors, n) ==
    LET matching == SelectSeq(ClipsNewestFirst,
                        LAMBDA i : feed_clips[i].user_id \in authors)
    IN  SubSeq(matching, 1, Min(n, Len(matching)))

\* wisdom_clips of the authors .eq('visibility', 'public')
\* .order('created_at', { ascending: false }).limit(n): ids in answer order
RecentPublicBy(authors, n) ==
    LET matching == SelectSeq(ClipsNewestFirst,
                        LAMBDA i : /\ feed_clips[i].user_id \in authors
                                   /\ feed_clips[i].visibility = "public")
    IN  SubSeq(matching, 1, Min(n, Len(matching)))

\* .in('user_id', followingIds.length > 0 ? followingIds : [userId])
FollowingAuthors(followingIds) ==
    IF followingIds # {} THEN followingIds ELSE {FeedUser}

\* the exclusion without the user's own id
DiscoveryAuthorsNotFollowed(followingIds) == ClipAuthorSet \ followingIds

\* .not('user_id', 'in', (userId, ...followingIds))
DiscoveryAuthors(followingIds) == ClipAuthorSet \ ({FeedUser} \cup followingIds)

\* the most recent public post of an author
NewestPublicOf(a) == RecentPublicBy({a}, 1)[1]

\* rows of reactions and comments for the most recent public posts
PoolReactions ==
    { [id |-> k, user_id |-> "a3", clip_id |-> NewestPublicOf("a1"),
       reaction_type |-> IF k <= 11 THEN "laugh" ELSE "care"] : k \in 1..12 }
    \cup { [id |-> 12 + k, user_id |-> "a1", clip_id |-> NewestPublicOf(a),
            reaction_type |-> "thinking"] : k \in 1..2, a \in {"u1", "a3"} }

PoolComments ==
    [k \in 1..10 |->
        [id |-> k, user_id |-> "a2",
         clip_id |-> IF k <= 7 THEN NewestPublicOf("a1") ELSE NewestPublicOf("a3"),
         parent_comment_id |-> NULL]]

\* reactionCounts: total and the per-type counts of the rows
ReactionCounts(rows) ==
    [present |-> TRUE,
     total |-> Cardinality(rows),
     laugh |-> Cardinality({ r \in rows : r.reaction_type = "laugh" }),
     thinking |-> Cardinality({ r \in rows : r.reaction_type = "thinking" }),
     care |-> Cardinality({ r \in rows : r.reaction_type = "care" })]

\* the engagement lookups of one invocation that fail: pairs (post, lookup)
EngagementLookups == {"reactions", "comments"}

\* step 8 for one post, degrading both counts when either lookup has failed
WithEngagementAllOrNothing(id, failed) ==
    [id |-> id,
     reactions |-> ReactionCounts(IF \E l \in EngagementLookups : <<id, l>> \in failed
                                  THEN {}
                                  ELSE { r \in reactions : r.clip_id = id }),
     comment_count |-> IF \E l \in EngagementLookups : <<id, l>> \in failed
                       THEN 0
                       ELSE Cardinality({ k \in DOMAIN comments :
                                            comments[k].clip_id = id })]

\* step 8 for one post: reactions?.length || 0, reactions?.forEach, commentCount || 0
WithEngagement(id, failed) ==
    [id |-> id,
     reactions |-> ReactionCounts(IF <<id, "reactions">> \in failed
                                  THEN {}
                                  ELSE { r \in reactions : r.clip_id = id }),
     comment_count |-> IF <<id, "comments">> \in failed
                       THEN 0
                       ELSE Cardinality({ k \in DOMAIN comments :
                                            comments[k].clip_id = id })]

\* the post as calculateContentScore reads it
ScoredFields(e) ==
    Post(e.reactions, e.comment_count, feed_clips[e.id].age_minutes,
         feed_clips[e.id].content_type, feed_clips[e.id].hashtags,
         users[feed_clips[e.id].user_id].aura_score,
         users[feed_clips[e.id].user_id].wisdom_score,
         feed_clips[e.id].is_crisis, feed_clips[e.id].needs_fact_check)

IdleFeed == [pc |-> "idle", followingIds |-> {}, followsAnswered |-> FALSE,
             followingPosts |-> <<>>, followingAnswered |-> FALSE,
             discoveryPosts |-> <<>>, discoveryAnswered |-> FALSE,
             allPosts |-> <<>>, failed |-> {}, postsWithEngagement |-> <<>>]

PoolAtRest ==
    /\ follows = {}
    /\ gfProc = IdleFeed
    /\ gfFaults = 0

\* a request of FeedUser after steps 1-3 (mood, time preference, passions)
InitPool ==
    /\ follows \in FollowGraphs
    /\ gfProc = [IdleFeed EXCEPT !.pc = "follows"]
    /\ gfFaults = 0

InitPoolInputs ==
    /\ post = QuietPost
    /\ userMood \in {"neutral", "fun-seeking"}
    /\ hour = 0
    /\ timePreference \in {"morning", "evening"}
    /\ userPassions = <<>>
    /\ feed_score = 0
    /\ sPc = "idle"
    /\ query \in [limit : QueryValues({<<"2", "0">>}, DefaultLimit),
                  offset : {JsNumber(DefaultOffset)}]
    /\ scoredPosts = <<>>
    /\ paginatedPosts = <<>>
    /\ feedResp = NoFeedResp
    /\ fPc = "idle"

InitPoolTables ==
    /\ reactions = PoolReactions
    /\ nextReactionId = Cardinality(PoolReactions) + 1
    /\ users = feed_users
    /\ behavioral_patterns = [u \in Users |-> NoPatterns]
    /\ rProc = [p \in Procs |-> IdleReact]
    /\ rResp = NoReactResp
    /\ rCalls = 0
    /\ rFaults = 0
    /\ rHist = [k \in ReactionKeys |-> <<>>]
    /\ rOverlap = [k \in ReactionKeys |-> FALSE]
    /\ badge_multiplier = [i \in 1..Len(BadgeNames) |-> i]
    /\ subscriptions = [u \in Commenters |-> "none"]
    /\ comments = PoolComments
    /\ comment_priority_scores = [i \in 1..MaxComments |-> NoScoreRow]
    /\ cProc = IdleComment
    /\ cResp = NoCommentResp
    /\ cCalls = 0
    /\ cFaults = 0

FeedFault ==
    /\ gfFaults < MaxFeedFaults
    /\ gfFaults' = gfFaults + 1

unchangedByFetch == <<follows, scoreVars, pageVars>>

\* step 4: following?.map(f => f.following_id) || []
GfReadFollows ==
    /\ gfProc.pc = "follows"
    /\ \/ /\ gfProc' = [gfProc EXCEPT !.pc = "following", !.followingIds = follows,
                                      !.followsAnswered = TRUE]
          /\ UNCHANGED gfFaults
       \/ /\ FeedFault
          /\ gfProc' = [gfProc EXCEPT !.pc = "following", !.followingIds = {}]
    /\ UNCHANGED unchangedByFetch
    /\ UNCHANGED restPool

\* step 5: the following pool
GfReadFollowingPosts ==
    /\ gfProc.pc = "following"
    /\ \/ /\ gfProc' = [gfProc EXCEPT
                 !.pc = "discovery",
                 !.followingPosts = RecentPublicBy(FollowingAuthors(gfProc.followingIds),
                                                   FollowingFetchLimit),
                 !.followingAnswered = TRUE]
          /\ UNCHANGED gfFaults
       \/ /\ FeedFault
          /\ gfProc' = [gfProc EXCEPT !.pc = "discovery"]
    /\ UNCHANGED unchangedByFetch
    /\ UNCHANGED restPool

\* step 7: [...(followingPosts || []), ...(discoveryPosts || [])]
Combine(proc, discoveryPosts, answered) ==
    [proc EXCEPT !.pc = "engagement",
                 !.discoveryPosts = discoveryPosts,
                 !.discoveryAnswered = answered,
                 !.allPosts = proc.followingPosts \o discoveryPosts]

\* step 6: the discovery pool
GfReadDiscoveryPosts ==
    /\ gfProc.pc = "discovery"
    /\ \/ /\ gfProc' = Combine(gfProc,
                 RecentPublicBy(DiscoveryAuthors(gfProc.followingIds),
                                DiscoveryFetchLimit), TRUE)
          /\ UNCHANGED gfFaults
       \/ /\ FeedFault
          /\ gfProc' = Combine(gfProc, <<>>, FALSE)
    /\ UNCHANGED unchangedByFetch
    /\ UNCHANGED restPool

\* the engagement lookups that may fail in one invocation: those of one of
\* the posts that have reactions or comments
FailureChoices(allPosts) ==
    { {} } \cup
    { { <<id, l>> : l \in ls } :
        id \in { allPosts[k] : k \in DOMAIN allPosts }
                 \cap { NewestPublicOf(a) : a \in ClipAuthorSet },
        ls \in (SUBSET EngagementLookups) \ { {} } }

\* step 8: Promise.all over the candidates
GfEngagement ==
    /\ gfProc.pc = "engagement"
    /\ \E failed \in FailureChoices(gfProc.allPosts) :
          /\ IF failed = {} THEN UNCHANGED gfFaults ELSE FeedFault
          /\ gfProc' = [gfProc EXCEPT
                 !.pc = "score",
                 !.failed = failed,
                 !.postsWithEngagement =
                     [k \in DOMAIN gfProc.allPosts |->
                         WithEngagement(gfProc.allPosts[k], failed)]]
    /\ UNCHANGED unchangedByFetch
    /\ UNCHANGED restPool

\* step 9: feed_score of every candidate
GfScore ==
    /\ gfProc.pc = "score"
    /\ scoredPosts' =
           [k \in DOMAIN gfProc.postsWithEngagement |->
               [id |-> gfProc.postsWithEngagement[k].id,
                feed_score |-> calculateContentScore(
                    ScoredFields(gfProc.postsWithEngagement[k]),
                    userMood, timePreference, userPassions)]]
    /\ fPc' = "sort"
    /\ gfProc' = [gfProc EXCEPT !.pc = "page"]
    /\ UNCHANGED <<follows, gfFaults, scoreVars, query, paginatedPosts, feedResp>>
    /\ UNCHANGED restPool

NextPool ==
    \/ GfReadFollows
    \/ GfReadFollowingPosts
    \/ GfReadDiscoveryPosts
    \/ GfEngagement
    \/ GfScore
    \/ FeedSort
    \/ FeedPaginate
    \/ FeedRespond

\* ---- properties of the candidate pool ----
IdsOf(seq) == { seq[k] : k \in DOMAIN seq }
PostIdsOf(posts) == { posts[k].id : k \in DOMAIN posts }

IsPublic(id) == feed_clips[id].visibility = "public"
AuthorOf(id) == feed_clips[id].user_id
Newer(i, j) == feed_clips[i].created_at > feed_clips[j].created_at

\* the authors of the following pool: the followed authors or, for a user
\* who follows nobody, the user
DocumentedFollowingAuthors == IF follows = {} THEN {FeedUser} ELSE follows

\* the authors of the discovery pool: neither followed nor the user
DocumentedDiscoveryAuthors == { a \in ClipAuthorSet : a \notin follows /\ a # FeedUser }

\* pool holds the n most recent public posts of the authors (all of them when
\* there are fewer), most recent first
MostRecentPublic(pool, authors, n) ==
    LET matching == { i \in 1..MaxClips : IsPublic(i) /\ AuthorOf(i) \in authors }
    IN  /\ IdsOf(pool) \subseteq matching
        /\ Len(pool) = Min(n, Cardinality(matching))
        /\ \A k \in 1..(Len(pool) - 1) : Newer(pool[k], pool[k + 1])
        /\ \A i \in matching \ IdsOf(pool) : \A k \in DOMAIN pool : Newer(pool[k], i)

\* C23: the candidate pool consists only of public posts: at most 50 most
\* recent posts by followed authors (by the user when the user follows
\* nobody) plus at most 30 most recent posts by authors neither followed nor
\* the user; every returned post is public and total_analyzed is at most 80.
\* The composition by author is stated for requests whose follows lookup
\* answered, the "most recent" for pools whose lookup answered.
C23_PoolOfPublicPosts ==
    /\ \A id \in IdsOf(gfProc.followingPosts) \cup IdsOf(gfProc.discoveryPosts) :
          IsPublic(id)
    /\ Len(gfProc.followingPosts) <= 50
    /\ Len(gfProc.discoveryPosts) <= 30
    /\ (gfProc.followsAnswered /\ gfProc.followingAnswered /\ gfProc.pc = "discovery")
          => MostRecentPublic(gfProc.followingPosts, DocumentedFollowingAuthors, 50)
    /\ (gfProc.followsAnswered /\ gfProc.discoveryAnswered /\ gfProc.pc = "engagement")
          => MostRecentPublic(gfProc.discoveryPosts, DocumentedDiscoveryAuthors, 30)
    /\ gfProc.followsAnswered
          => /\ \A id \in IdsOf(gfProc.followingPosts) :
                   AuthorOf(id) \in DocumentedFollowingAuthors
             /\ \A id \in IdsOf(gfProc.discoveryPosts) :
                   AuthorOf(id) \in DocumentedDiscoveryAuthors
    /\ PostIdsOf(scoredPosts) \subseteq
          IdsOf(gfProc.followingPosts) \cup IdsOf(gfProc.discoveryPosts)
    /\ feedResp.sent
          => /\ feedResp.total_analyzed <= 80
             /\ \A id \in PostIdsOf(feedResp.feed) : IsPublic(id)

\* C23 witness: a request of a user who follows two authors is answered from
\* a full pool of 50 followed and 30 discovery posts
C23_FullPoolAnswered ==
    /\ feedResp.sent
    /\ gfFaults = 0
    /\ follows = {"a1", "a2"}
    /\ Len(gfProc.followingPosts) = 50
    /\ Len(gfProc.discoveryPosts) = 30
    /\ feedResp.total_analyzed = 80

\* C23 scenario: a user who follows nobody is answered from the user's own
\* posts and the discovery pool
C23_OwnPostsSubstituted ==
    /\ feedResp.sent
    /\ gfFaults = 0
    /\ follows = {}
    /\ gfProc.followingPosts # <<>>
    /\ \A id \in IdsOf(gfProc.followingPosts) : AuthorOf(id) = FeedUser

\* C29: the following pool and the discovery pool are disjoint for every
\* follow graph, so no post appears twice in the scored list or in the
\* returned page.
C29_PoolsDisjoint ==
    /\ IdsOf(gfProc.followingPosts) \cap IdsOf(gfProc.discoveryPosts) = {}
    /\ Cardinality(IdsOf(gfProc.allPosts)) = Len(gfProc.allPosts)
    /\ Cardinality(PostIdsOf(scoredPosts)) = Len(scoredPosts)
    /\ Cardinality(PostIdsOf(paginatedPosts)) = Len(paginatedPosts)
    /\ Cardinality(PostIdsOf(feedResp.feed)) = Len(feedResp.feed)

\* C29 witness: a user who follows themself and others is answered a page
\* from two non-empty pools
C29_SelfFollowerAnswered ==
    /\ feedResp.sent
    /\ FeedUser \in follows
    /\ gfProc.followingPosts # <<>>
    /\ gfProc.discoveryPosts # <<>>
    /\ feedResp.count > 0

\* C29 scenario: the same for a user who follows nobody
C29_FollowsNobodyAnswered ==
    /\ feedResp.sent
    /\ follows = {}
    /\ gfProc.followingPosts # <<>>
    /\ gfProc.discoveryPosts # <<>>
    /\ feedResp.count > 0

\* ---- properties of the engagement lookups ----
ReactionRowsOf(id) == { r \in reactions : r.clip_id = id }
CommentRowsOf(id) == { k \in DOMAIN comments : comments[k].clip_id = id }

\* the score of a post from reaction rows and a comment count
DocumentedScore(id, rows, commentCount) ==
    LET p == Post(ReactionCounts(rows), commentCount, feed_clips[id].age_minutes,
                  feed_clips[id].content_type, feed_clips[id].hashtags,
                  users[AuthorOf(id)].aura_score, users[AuthorOf(id)].wisdom_score,
                  feed_clips[id].is_crisis, feed_clips[id].needs_fact_check)
        sum == NonPassionSum(p, userMood, timePreference)
    IN  IF sum > 0 THEN sum ELSE 0

LookupFailed(id, lookup) == <<id, lookup>> \in gfProc.failed

\* every candidate has been scored, and the request, once answered, was
\* answered with the feed
FeedScoredAndAnswered ==
    /\ gfProc.pc = "page" => PostIdsOf(scoredPosts) = IdsOf(gfProc.allPosts)
    /\ fPc = "done" => /\ feedResp.sent
                       /\ feedResp.total_analyzed = Len(gfProc.allPosts)

\* C21 as stated: a post with a failed reaction or comment-count lookup is
\* scored with zero engagement (all reaction counts 0, comment count 0), every
\* other candidate is scored normally, and the request succeeds.
C21_FailedLookupZeroEngagement ==
    /\ FeedScoredAndAnswered
    /\ \A k \in DOMAIN scoredPosts :
          LET id == scoredPosts[k].id
          IN  scoredPosts[k].feed_score =
                  IF \E l \in EngagementLookups : LookupFailed(id, l)
                  THEN DocumentedScore(id, {}, 0)
                  ELSE DocumentedScore(id, ReactionRowsOf(id),
                                       Cardinality(CommentRowsOf(id)))

\* C21 amended: the counts of the failed lookup are taken as 0 (a failed
\* reaction lookup: all reaction counts 0; a failed comment-count lookup:
\* comment count 0) while the result of the post's other lookup is still
\* counted; every other candidate is scored normally and the request succeeds.
C21_FailedLookupCountsZero ==
    /\ FeedScoredAndAnswered
    /\ \A k \in DOMAIN scoredPosts :
          LET id == scoredPosts[k].id
          IN  scoredPosts[k].feed_score =
                  DocumentedScore(id,
                      IF LookupFailed(id, "reactions") THEN {} ELSE ReactionRowsOf(id),
                      IF LookupFailed(id, "comments") THEN 0
                      ELSE Cardinality(CommentRowsOf(id)))

\* C21 witness: the request was answered after the reaction lookup of a post
\* with reactions and comments had failed alone, and that post's score
\* differs from the one it has with its reactions counted
C21_Witness ==
    /\ fPc = "done"
    /\ feedResp.sent
    /\ \E k \in DOMAIN scoredPosts :
          LET id == scoredPosts[k].id
          IN  /\ LookupFailed(id, "reactions")
              /\ ~LookupFailed(id, "comments")
              /\ CommentRowsOf(id) # {}
              /\ ReactionRowsOf(id) # {}
              /\ scoredPosts[k].feed_score #
                     DocumentedScore(id, ReactionRowsOf(id),
                                     Cardinality(CommentRowsOf(id)))

FanAtRest == InitFan /\ fan_badges = BadgeTable(1..(Len(BadgeNames) - 1))

StartFan ==
    /\ InitFan
    /\ InitReact
    /\ ScoreAtRest
    /\ MoodAtRest
    /\ PageAtRest
    /\ CommentsAtRest
    /\ SocketsAtRest
    /\ ChatAtRest
    /\ PoolAtRest

SpecFan == StartFan /\ [][NextFan]_vars

StartReact ==
    /\ InitReact
    /\ FanAtRest
    /\ ScoreAtRest
    /\ MoodAtRest
    /\ PageAtRest
    /\ CommentsAtRest
    /\ SocketsAtRest
    /\ ChatAtRest
    /\ PoolAtRest

SpecReact == StartReact /\ [][NextReact]_vars

StartScore ==
    /\ InitScore
    /\ FanAtRest
    /\ InitReact
    /\ MoodAtRest
    /\ PageAtRest
    /\ CommentsAtRest
    /\ SocketsAtRest
    /\ ChatAtRest
    /\ PoolAtRest

SpecScore == StartScore /\ [][ScorePost]_vars

StartPassion ==
    /\ InitPassion
    /\ FanAtRest
    /\ InitReact
    /\ MoodAtRest
    /\ PageAtRest
    /\ CommentsAtRest
    /\ SocketsAtRest
    /\ ChatAtRest
    /\ PoolAtRest

SpecPassion == StartPassion /\ [][ScorePost]_vars

StartScenario ==
    /\ InitScenario
    /\ FanAtRest
    /\ InitReact
    /\ MoodAtRest
    /\ PageAtRest
    /\ CommentsAtRest
    /\ SocketsAtRest
    /\ ChatAtRest
    /\ PoolAtRest

SpecScenario == StartScenario /\ [][NextScenario]_vars

StartMood ==
    /\ InitMood
    /\ FanAtRest
    /\ InitReact
    /\ ScoreAtRest
    /\ PageAtRest
    /\ CommentsAtRest
    /\ SocketsAtRest
    /\ ChatAtRest
    /\ PoolAtRest

SpecMood == StartMood /\ [][NextMood]_vars

StartPage ==
    /\ InitPage
    /\ FanAtRest
    /\ InitReact
    /\ ScoreAtRest
    /\ MoodAtRest
    /\ CommentsAtRest
    /\ SocketsAtRest
    /\ ChatAtRest
    /\ PoolAtRest

SpecPage == StartPage /\ [][NextPage]_vars

StartFanPairs ==
    /\ InitFanPairs
    /\ InitReact
    /\ ScoreAtRest
    /\ MoodAtRest
    /\ PageAtRest
    /\ CommentsAtRest
    /\ SocketsAtRest
    /\ ChatAtRest
    /\ PoolAtRest

SpecFanPairs == StartFanPairs /\ [][NextFanPairs]_vars

StartComments ==
    /\ InitComments
    /\ FanAtRest
    /\ InitCommentUsers
    /\ ScoreAtRest
    /\ MoodAtRest
    /\ PageAtRest
    /\ SocketsAtRest
    /\ ChatAtRest
    /\ PoolAtRest

SpecComments == StartComments /\ [][NextComments]_vars

StartSockets ==
    /\ InitSockets
    /\ FanAtRest
    /\ InitReact
    /\ ScoreAtRest
    /\ MoodAtRest
    /\ PageAtRest
    /\ CommentsAtRest
    /\ ChatAtRest
    /\ PoolAtRest

SpecSockets == StartSockets /\ [][NextSockets]_vars

StartChat ==
    /\ InitChat
    /\ FanAtRest
    /\ InitReact
    /\ ScoreAtRest
    /\ MoodAtRest
    /\ PageAtRest
    /\ CommentsAtRest
    /\ SocketsAtRest
    /\ PoolAtRest

SpecChat == StartChat /\ [][NextChat]_vars

StartPool ==
    /\ InitPool
    /\ InitPoolInputs
    /\ InitPoolTables
    /\ FanAtRest
    /\ MoodAtRest
    /\ SocketsAtRest
    /\ ChatAtRest

SpecPool == StartPool /\ [][NextPool]_vars

====
